---- MODULE Spec2Model ----
(***************************************************************************)
(* Model of the console todo application (phase-1-console): the flat-file *)
(* store of utils/storage.py, the validators and the Task dataclass of    *)
(* utils/models.py, the skills add_task, update_task, complete_task and   *)
(* delete_task, and the queries list_tasks, get_upcoming_tasks and         *)
(* get_overdue_tasks with set_due_date of the scheduler skill; and of the  *)
(* web application (phase-2-web/backend): the validators of                *)
(* skills/validation_skill.py, the table operations of                     *)
(* skills/db_crud_skill.py and the TaskOrchestrator that checks ownership. *)
(*                                                                         *)
(* Python values are encoded as follows.                                   *)
(*   str (free text)  a tuple of one-character strings, <<"a", "b">>       *)
(*   str (a word)     a TLA+ string; lower() is the table Lower            *)
(*   None             the sentinel of the value's encoding                 *)
(*   timestamps       a natural number, the tick of the clock; NoTime is   *)
(*                    None                                                 *)
(*   due-date string  a record [kind, t, off]: the format the string is    *)
(*                    written in, the wall-clock it reads, its UTC offset  *)
(*   a raised exception is the field exc of a function's result            *)
(***************************************************************************)
EXTENDS Integers, Sequences, FiniteSets, TLC

\* ------------------------------------------------------------------ bounds

\* The store never holds more than MaxTasks records (add_task is not called on a full store).
MaxTasks == 2
\* At most MaxWrites calls of a run reach save_tasks.
MaxWrites == 3
\* At most MaxFaults disk faults are injected in a run.
MaxFaults == 1
\* The whitespace before and after a title is at most MaxPad characters long.
MaxPad == 2
\* A day is DayLen ticks of the clock long.
DayLen == 2

\* ------------------------------------------------------------------ constants

MAX_TITLE_LENGTH == 200
MAX_CATEGORY_LENGTH == 50

DEFAULT_CATEGORY == <<"g", "e", "n", "e", "r", "a", "l">>

VALIDATION_ERROR == "VALIDATION_ERROR"
STORAGE_ERROR == "STORAGE_ERROR"
NOT_FOUND == "TASK_NOT_FOUND"
NO_CHANGES == "NO_CHANGES_PROVIDED"
UNKNOWN_ERROR == "UNKNOWN_ERROR"

\* validation_skill.py of the web application: the longest title and category.
WEB_MAX_TITLE_LENGTH == 500
WEB_MAX_CATEGORY_LENGTH == 100

\* ------------------------------------------------------------------ encodings

\* None, for a free-text argument (no one-character string equals it).
None == <<"<None>">>
\* None, for a word argument (priority, status).
NoWord == "<None>"
\* None, for a timestamp.
NoTime == 0 - 1
\* None, for a due date.
NoDue == [kind |-> "none", t |-> 0, off |-> 0]
\* The empty string, as a due date.
EmptyDue == [kind |-> "empty", t |-> 0, off |-> 0]

\* Python truthiness of a free-text argument, a word, a due date.
TruthyText(s) == s # None /\ s # <<>>
TruthyWord(w) == w # NoWord /\ w # ""
TruthyDue(d) == d.kind \notin {"none", "empty"}

\* str.lower() on the words the model passes.
Lower(w) ==
  CASE w = "HIGH" -> "high"
    [] w = "Completed" -> "completed"
    [] OTHER -> w

\* The characters str.strip() removes, of those the model writes.
Whitespace == {" ", "\t", "\n"}

RECURSIVE LStrip(_)
LStrip(s) == IF s # <<>> /\ Head(s) \in Whitespace THEN LStrip(Tail(s)) ELSE s

RECURSIVE RStrip(_)
RStrip(s) ==
  IF s # <<>> /\ s[Len(s)] \in Whitespace THEN RStrip(SubSeq(s, 1, Len(s) - 1)) ELSE s

\* str.strip()
Strip(s) == RStrip(LStrip(s))

\* A function's normal return, and a raised exception.
Return(v) == [exc |-> "none", v |-> v, msg |-> ""]
Raise(e, msg) == [exc |-> e, v |-> <<>>, msg |-> msg]

\* ------------------------------------------------------------------ models.py

PriorityValues == {"high", "medium", "low"}
StatusValues == {"pending", "in_progress", "completed"}

Priority_from_string(value) ==
  IF Lower(value) \in PriorityValues THEN Return(Lower(value))
  ELSE Raise("ValueError", "Invalid priority")

Status_from_string(value) ==
  IF Lower(value) \in StatusValues THEN Return(Lower(value))
  ELSE Raise("ValueError", "Invalid status")

\* A slip: the length of the title as given is tested, not that of the trimmed title.
validate_title_raw_length(title) ==
  LET t == Strip(title) IN
  IF t = <<>> THEN Raise("ValueError", "Title cannot be empty")
  ELSE IF Len(title) > MAX_TITLE_LENGTH THEN Raise("ValueError", "Title cannot exceed")
  ELSE Return(t)

\* A slip: the tests are made on the trimmed title, the title is returned as given.
validate_title_raw(title) ==
  LET t == Strip(title) IN
  IF t = <<>> THEN Raise("ValueError", "Title cannot be empty")
  ELSE IF Len(t) > MAX_TITLE_LENGTH THEN Raise("ValueError", "Title cannot exceed")
  ELSE Return(title)

validate_title(title) ==
  LET t == Strip(title) IN
  IF t = <<>> THEN Raise("ValueError", "Title cannot be empty")
  ELSE IF Len(t) > MAX_TITLE_LENGTH THEN Raise("ValueError", "Title cannot exceed")
  ELSE Return(t)

\* A slip: an empty category is returned as it is, without the default.
validate_category_keeps_empty(category) ==
  LET c == Strip(category) IN
  IF Len(c) > MAX_CATEGORY_LENGTH THEN Raise("ValueError", "Category cannot exceed")
  ELSE Return(c)

validate_category(category) ==
  LET c == Strip(category) IN
  IF Len(c) > MAX_CATEGORY_LENGTH THEN Raise("ValueError", "Category cannot exceed")
  ELSE Return(IF c = <<>> THEN DEFAULT_CATEGORY ELSE c)

\* A slip: a datetime with an offset is shifted to UTC, and its offset is written
\* after it all the same.
validate_due_date_shifted(due_date) ==
  CASE due_date.kind = "date" -> Return([kind |-> "naive", t |-> due_date.t, off |-> 0])
    [] due_date.kind = "naive" -> Return(due_date)
    [] due_date.kind = "z" -> Return(due_date)
    [] due_date.kind = "offset" ->
         Return(IF due_date.off = 0 THEN [kind |-> "z", t |-> due_date.t, off |-> 0]
                ELSE [due_date EXCEPT !.t = due_date.t - due_date.off])
    [] OTHER -> Raise("ValueError", "Invalid date format")

\* datetime.fromisoformat(s.replace('Z', '+00:00')).isoformat().replace('+00:00', 'Z'):
\* a date reads as midnight without a zone, a naive datetime stays naive, an offset
\* other than zero is kept as written, and only a zero offset is written as Z.
validate_due_date(due_date) ==
  CASE due_date.kind = "date" -> Return([kind |-> "naive", t |-> due_date.t, off |-> 0])
    [] due_date.kind = "naive" -> Return(due_date)
    [] due_date.kind = "z" -> Return(due_date)
    [] due_date.kind = "offset" ->
         Return(IF due_date.off = 0 THEN [kind |-> "z", t |-> due_date.t, off |-> 0] ELSE due_date)
    [] OTHER -> Raise("ValueError", "Invalid date format")

\* Task.__init__ and __post_init__ on already typed fields.
Task_post_init(task) ==
  LET p == Priority_from_string(task.priority)
      s == Status_from_string(task.status)
      t == Strip(task.title)
  IN
  IF p.exc # "none" THEN p
  ELSE IF s.exc # "none" THEN s
  ELSE IF t = <<>> THEN Raise("ValueError", "Title cannot be empty")
  ELSE IF Len(t) > MAX_TITLE_LENGTH THEN Raise("ValueError", "Title cannot exceed")
  ELSE IF Len(task.category) > MAX_CATEGORY_LENGTH
       THEN Raise("ValueError", "Category cannot exceed")
  ELSE Return([task EXCEPT !.priority = p.v, !.status = s.v, !.title = t])

\* Task(id=..., title=..., priority=..., category=..., due_date=...) at instant t.
Task_new(id, title, priority, category, due_date, t) ==
  Task_post_init([id |-> id, title |-> title, priority |-> priority, category |-> category,
                  status |-> "pending", completed |-> FALSE, created_at |-> t,
                  updated_at |-> NoTime, completed_at |-> NoTime, due_date |-> due_date])

Task_mark_completed(task, t) ==
  [task EXCEPT !.completed = TRUE, !.status = "completed", !.completed_at = t, !.updated_at = t]

\* A slip: the completion timestamp survives the reopening.
Task_mark_incomplete_keeps_stamp(task, t) ==
  [task EXCEPT !.completed = FALSE, !.status = "pending", !.updated_at = t]

Task_mark_incomplete(task, t) ==
  [task EXCEPT !.completed = FALSE, !.status = "pending", !.completed_at = NoTime,
               !.updated_at = t]

\* ------------------------------------------------------------------ storage.py

\* A file: absent, or holding a list of records; complete is FALSE for a file whose
\* JSON text was cut short.
NoFile == [exists |-> FALSE, data |-> <<>>, complete |-> TRUE]
File(tasks) == [exists |-> TRUE, data |-> tasks, complete |-> TRUE]
PartFile(tasks) ==
  [exists |-> TRUE, data |-> SubSeq(tasks, 1, Len(tasks) - 1), complete |-> FALSE]

load_tasks(fs) ==
  IF ~fs.todos.exists THEN Return(<<>>)
  ELSE IF ~fs.todos.complete THEN Raise("StorageError", "Corrupted todos.json")
  ELSE Return(fs.todos.data)

\* The finally clause of save_tasks: the temporary file is removed if it exists and
\* os.remove succeeds.
save_cleanup(fs, removeOk) ==
  IF fs.tmp.exists /\ removeOk THEN [fs EXCEPT !.tmp = NoFile] ELSE fs

\* A slip: the list is written over todos.json itself, without a temporary file.
save_tasks_in_place(fs, tasks, fault, removeOk) ==
  CASE fault = "none" -> [fs |-> [fs EXCEPT !.todos = File(tasks)], exc |-> "none"]
    [] fault = "open" -> [fs |-> fs, exc |-> "StorageError"]
    [] fault = "write" -> [fs |-> [fs EXCEPT !.todos = PartFile(tasks)], exc |-> "StorageError"]
    [] fault = "replace" -> [fs |-> [fs EXCEPT !.todos = File(tasks)], exc |-> "StorageError"]
    [] OTHER -> [fs |-> [fs EXCEPT !.todos = PartFile(tasks)], exc |-> "killed"]

\* save_tasks(tasks) under a disk fault: "none"; "open", the temporary file cannot be
\* opened; "write", the dump fails half way; "replace", the rename fails; "kill", the
\* process is killed between the write and the rename, so that no clause of it runs.
save_tasks(fs, tasks, fault, removeOk) ==
  CASE fault = "none" ->
         [fs |-> save_cleanup([todos |-> File(tasks), tmp |-> NoFile], removeOk), exc |-> "none"]
    [] fault = "open" ->
         [fs |-> save_cleanup(fs, removeOk), exc |-> "StorageError"]
    [] fault = "write" ->
         [fs |-> save_cleanup([fs EXCEPT !.tmp = PartFile(tasks)], removeOk),
          exc |-> "StorageError"]
    [] fault = "replace" ->
         [fs |-> save_cleanup([fs EXCEPT !.tmp = File(tasks)], removeOk),
          exc |-> "StorageError"]
    [] OTHER ->
         [fs |-> [fs EXCEPT !.tmp = File(tasks)], exc |-> "killed"]

RECURSIVE max_id(_)
\* max(task.get('id', 0) for task in tasks)
max_id(tasks) ==
  IF tasks = <<>> THEN 0
  ELSE LET m == max_id(Tail(tasks)) IN IF Head(tasks).id > m THEN Head(tasks).id ELSE m

\* A slip: the highest id is returned as it is, without the increment.
get_next_id_no_increment(fs) ==
  LET l == load_tasks(fs) IN
  IF l.exc # "none" THEN Raise("StorageError", "Failed to generate next ID")
  ELSE IF l.v = <<>> THEN Return(1)
  ELSE Return(max_id(l.v))

get_next_id(fs) ==
  LET l == load_tasks(fs) IN
  IF l.exc # "none" THEN Raise("StorageError", "Failed to generate next ID")
  ELSE IF l.v = <<>> THEN Return(1)
  ELSE Return(max_id(l.v) + 1)

\* The index of the first record with this id, 0 if none.
IndexOf(tasks, task_id) ==
  IF \E i \in 1..Len(tasks) : tasks[i].id = task_id
  THEN CHOOSE i \in 1..Len(tasks) :
         tasks[i].id = task_id /\ \A j \in 1..(i - 1) : tasks[j].id # task_id
  ELSE 0

\* find_task_by_id: Return(<<task>>), Return(<<>>) for None.
find_task_by_id(fs, task_id) ==
  LET l == load_tasks(fs) IN
  IF l.exc # "none" THEN Raise("StorageError", "Failed to find task")
  ELSE LET i == IndexOf(l.v, task_id) IN
       Return(IF i = 0 THEN <<>> ELSE <<l.v[i]>>)

\* A slip: the fields are overwritten, and updated_at is left as it was.
apply_updates_unstamped(task, updates, t) ==
  [f \in DOMAIN task |-> IF f \in DOMAIN updates THEN updates[f] ELSE task[f]]

\* for key, value in updates.items(): task[key] = value, then the updated_at stamp.
apply_updates(task, updates, t) ==
  [[f \in DOMAIN task |-> IF f \in DOMAIN updates THEN updates[f] ELSE task[f]]
     EXCEPT !.updated_at = t]

\* A slip: only the updated record is kept for the save, the others are dropped.
update_in_list_alone(tasks, task_id, updates, t) ==
  LET i == IndexOf(tasks, task_id) IN
  IF i = 0 THEN [found |-> FALSE, tasks |-> tasks]
  ELSE [found |-> TRUE, tasks |-> <<apply_updates(tasks[i], updates, t)>>]

\* The in-memory half of storage.update_task: the list with the first record of this
\* id updated, and whether there was one.
update_in_list(tasks, task_id, updates, t) ==
  LET i == IndexOf(tasks, task_id) IN
  IF i = 0 THEN [found |-> FALSE, tasks |-> tasks]
  ELSE [found |-> TRUE, tasks |-> [tasks EXCEPT ![i] = apply_updates(tasks[i], updates, t)]]

\* storage.update_task(task_id, updates) at instant t: [fs, exc, v].
storage_update_task(fs, task_id, updates, t, fault, removeOk) ==
  LET l == load_tasks(fs) IN
  IF l.exc # "none" THEN [fs |-> fs, exc |-> "StorageError", v |-> FALSE]
  ELSE LET u == update_in_list(l.v, task_id, updates, t) IN
       IF ~u.found THEN [fs |-> fs, exc |-> "none", v |-> FALSE]
       ELSE LET s == save_tasks(fs, u.tasks, fault, removeOk) IN
            [fs |-> s.fs, exc |-> s.exc, v |-> s.exc = "none"]

\* A slip: the comparison is inverted, and the records of the other ids are dropped.
RECURSIVE filter_keep(_, _)
filter_keep(tasks, task_id) ==
  IF tasks = <<>> THEN <<>>
  ELSE IF Head(tasks).id = task_id THEN <<Head(tasks)>> \o filter_keep(Tail(tasks), task_id)
  ELSE filter_keep(Tail(tasks), task_id)

\* [task for task in tasks if task.get('id') != task_id]
RECURSIVE filter_out(_, _)
filter_out(tasks, task_id) ==
  IF tasks = <<>> THEN <<>>
  ELSE IF Head(tasks).id # task_id THEN <<Head(tasks)>> \o filter_out(Tail(tasks), task_id)
  ELSE filter_out(Tail(tasks), task_id)

\* storage.delete_task(task_id): [fs, exc, v].
storage_delete_task(fs, task_id, fault, removeOk) ==
  LET l == load_tasks(fs) IN
  IF l.exc # "none" THEN [fs |-> fs, exc |-> "StorageError", v |-> FALSE]
  ELSE LET filtered_tasks == filter_out(l.v, task_id) IN
       IF Len(filtered_tasks) = Len(l.v) THEN [fs |-> fs, exc |-> "none", v |-> FALSE]
       ELSE LET s == save_tasks(fs, filtered_tasks, fault, removeOk) IN
            [fs |-> s.fs, exc |-> s.exc, v |-> s.exc = "none"]

\* ------------------------------------------------------------------ OperationResult

\* OperationResult.data: None, or a payload of task dicts and the confirmation flag.
NoData == [none |-> TRUE, tasks |-> <<>>, confirmation_required |-> FALSE]
TaskData(task) == [none |-> FALSE, tasks |-> <<task>>, confirmation_required |-> FALSE]

OperationResult(success, message, data, error, error_code) ==
  [returned |-> TRUE, success |-> success, message |-> message, data |-> data,
   error |-> error, error_code |-> error_code]

success_result(message, data) == OperationResult(TRUE, message, data, NoWord, NoWord)

\* message is "Operation failed: " followed by the error text.
error_result(error, code) == OperationResult(FALSE, "Operation failed", NoData, error, code)

\* The process was killed inside the call: nothing was returned.
Killed ==
  [returned |-> FALSE, success |-> FALSE, message |-> NoWord, data |-> NoData,
   error |-> NoWord, error_code |-> NoWord]

\* The except clauses of add_task and update_task, for a raised exception e with text msg.
on_exception(exc, msg) ==
  CASE exc = "ValueError" -> error_result(msg, VALIDATION_ERROR)
    [] exc = "StorageError" -> error_result(msg, STORAGE_ERROR)
    [] exc = "killed" -> Killed
    [] OTHER -> error_result("Unexpected error", UNKNOWN_ERROR)

\* The except clauses of complete_task and delete_task, which have none for ValueError.
on_exception_no_value(exc, msg) ==
  CASE exc = "StorageError" -> error_result(msg, STORAGE_ERROR)
    [] exc = "killed" -> Killed
    [] OTHER -> error_result("Unexpected error", UNKNOWN_ERROR)

\* What a skill leaves behind: the file system and the result it returned.
Out(fs, res) == [fs |-> fs, res |-> res]

\* ------------------------------------------------------------------ skills

\* The creation and persistence phases of add_task, on validated values.
create_and_persist(fs, title, priority_enum, category, due_date, t, fault, removeOk) ==
  LET task_id == get_next_id(fs)
      task == Task_new(task_id.v, title, priority_enum, category, due_date, t)
      tasks == load_tasks(fs)
      saved == save_tasks(fs, Append(tasks.v, task.v), fault, removeOk)
  IN
  IF task_id.exc # "none" THEN Out(fs, on_exception(task_id.exc, task_id.msg))
  ELSE IF task.exc # "none" THEN Out(fs, on_exception(task.exc, task.msg))
  ELSE IF tasks.exc # "none" THEN Out(fs, on_exception(tasks.exc, tasks.msg))
  ELSE IF saved.exc # "none" THEN Out(saved.fs, on_exception(saved.exc, "Failed to save tasks"))
  ELSE Out(saved.fs, success_result("Task added successfully", TaskData(task.v)))

\* A slip: the due date is validated after the task was persisted.
add_task_persist_first(fs, title, priority, category, due_date, t, fault, removeOk) ==
  LET validated_title == validate_title(title)
      priority_enum == Priority_from_string(priority)
      validated_category == validate_category(category)
      due == IF TruthyDue(due_date) THEN validate_due_date(due_date) ELSE Return(due_date)
      created == create_and_persist(fs, validated_title.v, priority_enum.v,
                                    validated_category.v, due_date, t, fault, removeOk)
  IN
  IF validated_title.exc # "none" THEN Out(fs, on_exception(validated_title.exc, validated_title.msg))
  ELSE IF priority_enum.exc # "none" THEN Out(fs, on_exception(priority_enum.exc, priority_enum.msg))
  ELSE IF validated_category.exc # "none"
       THEN Out(fs, on_exception(validated_category.exc, validated_category.msg))
  ELSE IF due.exc # "none" THEN Out(created.fs, on_exception(due.exc, due.msg))
  ELSE created

\* add_task(title, priority, category, due_date): the Task is built at instant t.
add_task(fs, title, priority, category, due_date, t, fault, removeOk) ==
  LET validated_title == validate_title(title)
      priority_enum == Priority_from_string(priority)
      validated_category == validate_category(category)
      due == IF TruthyDue(due_date) THEN validate_due_date(due_date) ELSE Return(due_date)
  IN
  IF validated_title.exc # "none" THEN Out(fs, on_exception(validated_title.exc, validated_title.msg))
  ELSE IF priority_enum.exc # "none" THEN Out(fs, on_exception(priority_enum.exc, priority_enum.msg))
  ELSE IF validated_category.exc # "none"
       THEN Out(fs, on_exception(validated_category.exc, validated_category.msg))
  ELSE IF due.exc # "none" THEN Out(fs, on_exception(due.exc, due.msg))
  ELSE create_and_persist(fs, validated_title.v, priority_enum.v, validated_category.v,
                          due.v, t, fault, removeOk)

\* The updates dict of update_task: one key per argument that is not None, built in the
\* order title, priority, category, status, due_date; the first validator to raise
\* ends the building.
build_updates(title, priority, category, status, due_date) ==
  LET vt == IF title # None THEN validate_title(title) ELSE Return(<<>>)
      vp == IF priority # NoWord THEN Priority_from_string(priority) ELSE Return("")
      vc == IF category # None THEN validate_category(category) ELSE Return(<<>>)
      vs == IF status # NoWord THEN Status_from_string(status) ELSE Return("")
      vd == IF due_date # NoDue
            THEN (IF TruthyDue(due_date) THEN validate_due_date(due_date) ELSE Return(NoDue))
            ELSE Return(NoDue)
      u1 == IF title # None THEN "title" :> vt.v ELSE <<>>
      u2 == IF priority # NoWord THEN "priority" :> vp.v ELSE <<>>
      u3 == IF category # None THEN "category" :> vc.v ELSE <<>>
      u4 == IF status # NoWord
            THEN (IF vs.v = "completed"
                  THEN ("status" :> vs.v) @@ ("completed" :> TRUE)
                  ELSE "status" :> vs.v)
            ELSE <<>>
      u5 == IF due_date # NoDue THEN "due_date" :> vd.v ELSE <<>>
  IN
  IF vt.exc # "none" THEN vt
  ELSE IF vp.exc # "none" THEN vp
  ELSE IF vc.exc # "none" THEN vc
  ELSE IF vs.exc # "none" THEN vs
  ELSE IF vd.exc # "none" THEN vd
  ELSE Return(u1 @@ u2 @@ u3 @@ u4 @@ u5)

\* A slip: the title is written to the store as soon as it is validated, before the
\* other fields are.
update_task_eager(fs, task_id, title, priority, category, status, due_date, t, fault, removeOk) ==
  LET task_dict == find_task_by_id(fs, task_id)
      vt == IF title # None THEN validate_title(title) ELSE Return(<<>>)
      early == IF title # None /\ vt.exc = "none"
               THEN storage_update_task(fs, task_id, "title" :> vt.v, t, "none", TRUE).fs
               ELSE fs
      updates == build_updates(title, priority, category, status, due_date)
      stored == storage_update_task(early, task_id, updates.v, t, fault, removeOk)
  IN
  IF ~(TruthyText(title) \/ TruthyWord(priority) \/ TruthyText(category)
       \/ TruthyWord(status) \/ TruthyDue(due_date))
  THEN Out(fs, error_result("No fields to update", NO_CHANGES))
  ELSE IF task_dict.exc # "none" THEN Out(fs, on_exception(task_dict.exc, task_dict.msg))
  ELSE IF task_dict.v = <<>> THEN Out(fs, error_result("Task not found", NOT_FOUND))
  ELSE IF updates.exc # "none" THEN Out(early, on_exception(updates.exc, updates.msg))
  ELSE IF stored.exc # "none"
       THEN Out(stored.fs, on_exception(stored.exc, "Failed to update task"))
  ELSE IF ~stored.v THEN Out(stored.fs, error_result("Failed to update task", STORAGE_ERROR))
  ELSE Out(stored.fs,
           success_result("Task updated successfully",
                          [none |-> FALSE, tasks |-> find_task_by_id(stored.fs, task_id).v,
                           confirmation_required |-> FALSE]))

\* update_task(task_id, title, priority, category, status, due_date): the store stamps
\* updated_at at instant t.
update_task(fs, task_id, title, priority, category, status, due_date, t, fault, removeOk) ==
  LET task_dict == find_task_by_id(fs, task_id)
      updates == build_updates(title, priority, category, status, due_date)
      stored == storage_update_task(fs, task_id, updates.v, t, fault, removeOk)
      updated_task == find_task_by_id(stored.fs, task_id)
  IN
  IF ~(TruthyText(title) \/ TruthyWord(priority) \/ TruthyText(category)
       \/ TruthyWord(status) \/ TruthyDue(due_date))
  THEN Out(fs, error_result("No fields to update", NO_CHANGES))
  ELSE IF task_dict.exc # "none" THEN Out(fs, on_exception(task_dict.exc, task_dict.msg))
  ELSE IF task_dict.v = <<>> THEN Out(fs, error_result("Task not found", NOT_FOUND))
  ELSE IF updates.exc # "none" THEN Out(fs, on_exception(updates.exc, updates.msg))
  ELSE IF stored.exc # "none"
       THEN Out(stored.fs, on_exception(stored.exc, "Failed to update task"))
  ELSE IF ~stored.v THEN Out(stored.fs, error_result("Failed to update task", STORAGE_ERROR))
  ELSE IF updated_task.exc # "none"
       THEN Out(stored.fs, on_exception(updated_task.exc, updated_task.msg))
  ELSE Out(stored.fs,
           success_result("Task updated successfully",
                          [none |-> FALSE, tasks |-> updated_task.v,
                           confirmation_required |-> FALSE]))

\* complete_task(task_id, uncomplete, toggle): the Task is marked at instant t1 and the
\* store stamps updated_at at instant t2.
complete_task(fs, task_id, uncomplete, toggle, t1, t2, fault, removeOk) ==
  LET task_dict == find_task_by_id(fs, task_id)
      loaded == Task_post_init(task_dict.v[1])
      reopen == IF toggle THEN loaded.v.completed ELSE uncomplete
      task == IF reopen THEN Task_mark_incomplete(loaded.v, t1)
              ELSE Task_mark_completed(loaded.v, t1)
      updates == [completed |-> task.completed, status |-> task.status,
                  completed_at |-> task.completed_at, updated_at |-> task.updated_at]
      stored == storage_update_task(fs, task_id, updates, t2, fault, removeOk)
  IN
  IF task_dict.exc # "none" THEN Out(fs, on_exception_no_value(task_dict.exc, task_dict.msg))
  ELSE IF task_dict.v = <<>> THEN Out(fs, error_result("Task not found", NOT_FOUND))
  ELSE IF loaded.exc # "none" THEN Out(fs, on_exception_no_value(loaded.exc, loaded.msg))
  ELSE IF stored.exc # "none"
       THEN Out(stored.fs, on_exception_no_value(stored.exc, "Failed to update task"))
  ELSE IF ~stored.v THEN Out(stored.fs, error_result("Failed to update task", STORAGE_ERROR))
  ELSE Out(stored.fs,
           success_result(IF reopen THEN "Task reopened" ELSE "Task completed",
                          TaskData(task)))

\* A slip: the forced call does not look the task up and reports what the store says.
delete_task_unchecked(fs, task_id, force, fault, removeOk) ==
  LET task_dict == find_task_by_id(fs, task_id)
      deleted == storage_delete_task(fs, task_id, fault, removeOk)
  IN
  IF task_dict.exc # "none" THEN Out(fs, on_exception_no_value(task_dict.exc, task_dict.msg))
  ELSE IF ~force /\ task_dict.v = <<>> THEN Out(fs, error_result("Task not found", NOT_FOUND))
  ELSE IF ~force
       THEN Out(fs, OperationResult(TRUE, "Confirmation required",
                                    [none |-> FALSE, tasks |-> task_dict.v,
                                     confirmation_required |-> TRUE],
                                    NoWord, NoWord))
  ELSE IF deleted.exc # "none"
       THEN Out(deleted.fs, on_exception_no_value(deleted.exc, "Failed to delete task"))
  ELSE IF ~deleted.v THEN Out(deleted.fs, error_result("Failed to delete task", STORAGE_ERROR))
  ELSE Out(deleted.fs,
           success_result("Task deleted",
                          [none |-> FALSE, tasks |-> task_dict.v,
                           confirmation_required |-> FALSE]))

\* delete_task(task_id, force). backup_tasks copies todos.json to a file of another
\* name that no operation reads; it is not part of the file system modelled here.
delete_task(fs, task_id, force, fault, removeOk) ==
  LET task_dict == find_task_by_id(fs, task_id)
      deleted == storage_delete_task(fs, task_id, fault, removeOk)
  IN
  IF task_dict.exc # "none" THEN Out(fs, on_exception_no_value(task_dict.exc, task_dict.msg))
  ELSE IF task_dict.v = <<>> THEN Out(fs, error_result("Task not found", NOT_FOUND))
  ELSE IF ~force
       THEN Out(fs, OperationResult(TRUE, "Confirmation required",
                                    [none |-> FALSE, tasks |-> task_dict.v,
                                     confirmation_required |-> TRUE],
                                    NoWord, NoWord))
  ELSE IF deleted.exc # "none"
       THEN Out(deleted.fs, on_exception_no_value(deleted.exc, "Failed to delete task"))
  ELSE IF ~deleted.v THEN Out(deleted.fs, error_result("Failed to delete task", STORAGE_ERROR))
  ELSE Out(deleted.fs,
           success_result("Task deleted",
                          [none |-> FALSE, tasks |-> task_dict.v,
                           confirmation_required |-> FALSE]))

\* ------------------------------------------------------------------ queries

\* Task.from_dict(data): cls(**data), which runs __post_init__.
Task_from_dict(data) == Task_post_init(data)

\* [Task.from_dict(t) for t in task_dicts]: the first exception raised, or the Tasks.
tasks_from_dicts(task_dicts) ==
  LET made == [k \in 1..Len(task_dicts) |-> Task_from_dict(task_dicts[k])]
      failed == {k \in 1..Len(task_dicts) : made[k].exc # "none"}
  IN
  IF failed # {} THEN made[CHOOSE k \in failed : \A j \in failed : k <= j]
  ELSE Return([k \in 1..Len(task_dicts) |-> made[k].v])

\* datetime.fromisoformat(due_date.replace('Z', '+00:00')).replace(tzinfo=None): the
\* wall-clock reading of the text, its offset dropped and not applied.
parse_naive(due_date) ==
  IF due_date.kind \in {"date", "naive", "z", "offset"} THEN Return(due_date.t)
  ELSE Raise("ValueError", "Invalid isoformat string")

\* A slip: a due date that cannot be parsed counts as past.
is_overdue_unparsed(task, t) ==
  IF ~TruthyDue(task.due_date) \/ task.completed THEN FALSE
  ELSE IF parse_naive(task.due_date).exc # "none" THEN TRUE
  ELSE t > parse_naive(task.due_date).v

\* Task.is_overdue() at instant t.
is_overdue(task, t) ==
  IF ~TruthyDue(task.due_date) \/ task.completed THEN FALSE
  ELSE IF parse_naive(task.due_date).exc # "none" THEN FALSE
  ELSE t > parse_naive(task.due_date).v

\* timedelta.days: whole days, rounded down.
timedelta_days(ticks) == ticks \div DayLen

\* Task.days_until_due() at instant t: None, or a number of days.
NoDays == [none |-> TRUE, days |-> 0]
days_until_due(task, t) ==
  IF ~TruthyDue(task.due_date) THEN NoDays
  ELSE IF parse_naive(task.due_date).exc # "none" THEN NoDays
  ELSE [none |-> FALSE, days |-> timedelta_days(parse_naive(task.due_date).v - t)]

\* TaskFilter: a field that is None sets no predicate; completed is <<>> for None.
NoFlag == <<>>
TaskFilter(status, priority, category, completed, overdue_only) ==
  [status |-> status, priority |-> priority, category |-> category,
   completed |-> completed, overdue_only |-> overdue_only]

\* A slip: a task passes as soon as one of the predicates that are set holds.
TaskFilter_matches_any(filter, task, t) ==
  \/ filter.status = NoWord /\ filter.priority = NoWord /\ ~TruthyText(filter.category)
     /\ filter.completed = NoFlag /\ ~filter.overdue_only
  \/ filter.status # NoWord /\ task.status = filter.status
  \/ filter.priority # NoWord /\ task.priority = filter.priority
  \/ TruthyText(filter.category) /\ task.category = filter.category
  \/ filter.completed # NoFlag /\ task.completed = filter.completed[1]
  \/ filter.overdue_only /\ is_overdue(task, t)

TaskFilter_matches(filter, task, t) ==
  IF filter.status # NoWord /\ task.status # filter.status THEN FALSE
  ELSE IF filter.priority # NoWord /\ task.priority # filter.priority THEN FALSE
  ELSE IF TruthyText(filter.category) /\ task.category # filter.category THEN FALSE
  ELSE IF filter.completed # NoFlag /\ task.completed # filter.completed[1] THEN FALSE
  ELSE IF filter.overdue_only /\ ~is_overdue(task, t) THEN FALSE
  ELSE TRUE

\* [t for t in tasks if keep(t)], for the positions kept.
RECURSIVE select(_, _)
select(tasks, kept) ==
  IF tasks = <<>> THEN <<>>
  ELSE LET rest == select(Tail(tasks), {k - 1 : k \in kept \ {1}}) IN
       IF 1 \in kept THEN <<Head(tasks)>> \o rest ELSE rest

\* ---- list.sort

\* The order of str and of tuples: position by position, a prefix first.
LexLess(a, b) ==
  \E n \in 0..Len(a) :
    /\ n <= Len(b)
    /\ \A i \in 1..n : a[i] = b[i]
    /\ \/ n = Len(a) /\ n < Len(b)
       \/ n < Len(a) /\ n < Len(b) /\ a[n + 1] < b[n + 1]

\* list.sort(key=..., reverse=...) is stable: an item moves before another one only if
\* its key is smaller (larger, when reversed).
sorted_by(items, keys, reverse) ==
  LET n == Len(items)
      before(i, j) ==
        LET lt == IF reverse THEN LexLess(keys[j], keys[i]) ELSE LexLess(keys[i], keys[j])
            gt == IF reverse THEN LexLess(keys[i], keys[j]) ELSE LexLess(keys[j], keys[i])
        IN lt \/ (~gt /\ i < j)
      place(i) == 1 + Cardinality({j \in 1..n : before(j, i)})
  IN [p \in 1..n |-> items[CHOOSE i \in 1..n : place(i) = p]]

\* The code points of the characters titles and categories are made of.
ord(c) ==
  CASE c = "\t" -> 9
    [] c = "\n" -> 10
    [] c = " " -> 32
    [] c = "a" -> 97
    [] c = "b" -> 98
    [] c = "c" -> 99
    [] c = "w" -> 119
    [] OTHER -> 120

\* The order of the enum values as str: "high" < "low" < "medium", and of the statuses.
word_key(w) ==
  CASE w = "completed" -> <<1>>
    [] w = "high" -> <<2>>
    [] w = "in_progress" -> <<3>>
    [] w = "low" -> <<4>>
    [] w = "medium" -> <<5>>
    [] w = "pending" -> <<6>>
    [] OTHER -> <<7>>

\* The order of the timestamps as str; None sorts as "".
time_key(t) == IF t = NoTime THEN <<>> ELSE <<t>>

\* The order of the due dates as str; None and "" sort first. A date starts with a
\* digit and sorts by its reading, a date before a datetime, a naive datetime before
\* one with "+hh:mm" and that one before one with "Z"; a text that is no date starts
\* with a letter and sorts after every date.
due_key(due_date) ==
  CASE ~TruthyDue(due_date) -> <<>>
    [] due_date.kind = "date" -> <<0, due_date.t>>
    [] due_date.kind = "naive" -> <<0, due_date.t, 0>>
    [] due_date.kind = "offset" -> <<0, due_date.t, 0, 1, due_date.off>>
    [] due_date.kind = "z" -> <<0, due_date.t, 0, 2>>
    [] OTHER -> <<1>>

\* getattr(t, sort_by) as a sort key: a field, a bound method (which has no order), or
\* no attribute at all.
SortFields ==
  {"id", "title", "priority", "category", "status", "completed", "created_at",
   "updated_at", "completed_at", "due_date"}
SortMethods == {"is_overdue", "days_until_due", "to_dict", "mark_completed"}

sort_key(task, sort_by) ==
  CASE sort_by = "id" -> <<task.id>>
    [] sort_by = "title" -> [i \in 1..Len(task.title) |-> ord(task.title[i])]
    [] sort_by = "category" -> [i \in 1..Len(task.category) |-> ord(task.category[i])]
    [] sort_by = "priority" -> word_key(task.priority)
    [] sort_by = "status" -> word_key(task.status)
    [] sort_by = "completed" -> <<IF task.completed THEN 1 ELSE 0>>
    [] sort_by = "created_at" -> time_key(task.created_at)
    [] sort_by = "updated_at" -> time_key(task.updated_at)
    [] sort_by = "completed_at" -> time_key(task.completed_at)
    [] OTHER -> due_key(task.due_date)

\* filtered_tasks.sort(key=..., reverse=sort_order == "desc") inside try/except
\* AttributeError: an unknown attribute leaves the list as it is; two bound methods
\* cannot be compared, which is a TypeError.
sort_tasks(tasks, sort_by, sort_order) ==
  IF tasks = <<>> THEN Return(tasks)
  ELSE IF sort_by \in SortFields
       THEN Return(sorted_by(tasks, [k \in 1..Len(tasks) |-> sort_key(tasks[k], sort_by)],
                             sort_order = "desc"))
  ELSE IF sort_by \in SortMethods
       THEN IF Len(tasks) > 1 THEN Raise("TypeError", "'<' not supported") ELSE Return(tasks)
  ELSE Return(tasks)

\* filtered_tasks[:limit] if limit and limit > 0; limit is NoLimit for None.
NoLimit == 0 - 1
take(tasks, limit) ==
  IF limit # NoLimit /\ limit > 0 /\ limit < Len(tasks) THEN SubSeq(tasks, 1, limit) ELSE tasks

\* The data of a list: the dicts as JSON, the lines of the simple format, or the Tasks
\* of the table format.
ListData(tasks, format) ==
  [none |-> FALSE, tasks |-> tasks, confirmation_required |-> FALSE, format |-> format]

\* One line of the simple format: the id, the mark, the title, the priority and the due
\* date.
simple_line(task) ==
  [id |-> task.id, completed |-> task.completed, title |-> task.title,
   priority |-> task.priority, due_date |-> task.due_date]

\* The except clauses of list_tasks.
list_on_exception(exc, msg) ==
  CASE exc = "ValueError" -> error_result(msg, VALIDATION_ERROR)
    [] exc = "StorageError" -> error_result(msg, STORAGE_ERROR)
    [] OTHER -> error_result("Unexpected error", UNKNOWN_ERROR)

\* A slip: the tasks that passed the filter are saved as the store.
list_tasks_saving(fs, status, priority, category, completed, overdue_only, sort_by, sort_order, limit, output_format, t) ==
  LET task_dicts == load_tasks(fs)
      tasks == tasks_from_dicts(task_dicts.v)
      filter_status == IF TruthyWord(status) /\ status # "all"
                       THEN Status_from_string(status) ELSE Return(NoWord)
      filter_priority == IF TruthyWord(priority) /\ priority # "all"
                         THEN Priority_from_string(priority) ELSE Return(NoWord)
      task_filter == TaskFilter(filter_status.v, filter_priority.v,
                                IF TruthyText(category) /\ category # <<"a", "l", "l">>
                                THEN category ELSE None,
                                completed, overdue_only)
      filtered_tasks ==
        select(tasks.v, {k \in 1..Len(tasks.v) : TaskFilter_matches(task_filter, tasks.v[k], t)})
  IN
  IF task_dicts.exc # "none" THEN Out(fs, list_on_exception(task_dicts.exc, task_dicts.msg))
  ELSE IF tasks.exc # "none" THEN Out(fs, list_on_exception(tasks.exc, tasks.msg))
  ELSE IF filter_status.exc # "none"
       THEN Out(fs, list_on_exception(filter_status.exc, filter_status.msg))
  ELSE IF filter_priority.exc # "none"
       THEN Out(fs, list_on_exception(filter_priority.exc, filter_priority.msg))
  ELSE Out(save_tasks(fs, filtered_tasks, "none", TRUE).fs,
           success_result("Showing tasks", ListData(filtered_tasks, "table")))

\* list_tasks(status, priority, category, completed, overdue_only, sort_by, sort_order,
\* limit, output_format) at instant t.
list_tasks(fs, status, priority, category, completed, overdue_only, sort_by, sort_order, limit, output_format, t) ==
  LET task_dicts == load_tasks(fs)
      tasks == tasks_from_dicts(task_dicts.v)
      filter_status == IF TruthyWord(status) /\ status # "all"
                       THEN Status_from_string(status) ELSE Return(NoWord)
      filter_priority == IF TruthyWord(priority) /\ priority # "all"
                         THEN Priority_from_string(priority) ELSE Return(NoWord)
      task_filter == TaskFilter(filter_status.v, filter_priority.v,
                                IF TruthyText(category) /\ category # <<"a", "l", "l">>
                                THEN category ELSE None,
                                completed, overdue_only)
      filtered_tasks ==
        select(tasks.v, {k \in 1..Len(tasks.v) : TaskFilter_matches(task_filter, tasks.v[k], t)})
      sorted == sort_tasks(filtered_tasks, sort_by, sort_order)
      limited == take(sorted.v, limit)
      count == Len(limited)
  IN
  IF task_dicts.exc # "none" THEN Out(fs, list_on_exception(task_dicts.exc, task_dicts.msg))
  ELSE IF tasks.exc # "none" THEN Out(fs, list_on_exception(tasks.exc, tasks.msg))
  ELSE IF filter_status.exc # "none"
       THEN Out(fs, list_on_exception(filter_status.exc, filter_status.msg))
  ELSE IF filter_priority.exc # "none"
       THEN Out(fs, list_on_exception(filter_priority.exc, filter_priority.msg))
  ELSE IF sorted.exc # "none" THEN Out(fs, list_on_exception(sorted.exc, sorted.msg))
  ELSE IF output_format = "json"
       THEN Out(fs, success_result("Showing tasks", ListData(limited, "json")))
  ELSE IF output_format = "simple"
       THEN Out(fs, success_result("Showing tasks",
                                   ListData([k \in 1..count |-> simple_line(limited[k])],
                                            "simple")))
  ELSE Out(fs, success_result("Showing tasks", ListData(limited, "table")))

\* ------------------------------------------------------------------ scheduler_skill.py

\* The data of set_due_date: the id and the validated due date.
DueData(task_id, due_date) ==
  [none |-> FALSE, tasks |-> <<>>, confirmation_required |-> FALSE, task_id |-> task_id,
   due_date |-> due_date]

\* set_due_date(task_id, due_date); the store stamps updated_at at instant t.
set_due_date(fs, task_id, due_date, t, fault, removeOk) ==
  LET task_dict == find_task_by_id(fs, task_id)
      validated_due_date == validate_due_date(due_date)
      stored == storage_update_task(fs, task_id, [due_date |-> validated_due_date.v], t,
                                    fault, removeOk)
  IN
  IF task_dict.exc # "none" THEN Out(fs, on_exception(task_dict.exc, task_dict.msg))
  ELSE IF task_dict.v = <<>> THEN Out(fs, error_result("Task not found", NOT_FOUND))
  ELSE IF validated_due_date.exc # "none"
       THEN Out(fs, on_exception(validated_due_date.exc, validated_due_date.msg))
  ELSE IF stored.exc # "none"
       THEN Out(stored.fs, on_exception(stored.exc, "Failed to update task"))
  ELSE IF ~stored.v THEN Out(stored.fs, error_result("Failed to update task", STORAGE_ERROR))
  ELSE Out(stored.fs, success_result("Due date set", DueData(task_id, validated_due_date.v)))

\* The except clauses of get_upcoming_tasks and get_overdue_tasks, which have none for
\* ValueError.
query_on_exception(exc, msg) ==
  CASE exc = "StorageError" -> error_result(msg, STORAGE_ERROR)
    [] OTHER -> error_result("Unexpected error", UNKNOWN_ERROR)

\* The test of get_upcoming_tasks on one task, at instant t.
is_upcoming(task, days, t) ==
  IF task.completed \/ ~TruthyDue(task.due_date) THEN FALSE
  ELSE IF parse_naive(task.due_date).exc # "none" THEN FALSE
  ELSE LET days_until == timedelta_days(parse_naive(task.due_date).v - t) IN
       0 <= days_until /\ days_until <= days

\* get_upcoming_tasks(days) at instant t.
get_upcoming_tasks(fs, days, t) ==
  LET task_dicts == load_tasks(fs)
      tasks == tasks_from_dicts(task_dicts.v)
      upcoming == select(tasks.v, {k \in 1..Len(tasks.v) : is_upcoming(tasks.v[k], days, t)})
      sorted == sorted_by(upcoming, [k \in 1..Len(upcoming) |-> due_key(upcoming[k].due_date)],
                          FALSE)
  IN
  IF task_dicts.exc # "none" THEN Out(fs, query_on_exception(task_dicts.exc, task_dicts.msg))
  ELSE IF tasks.exc # "none" THEN Out(fs, query_on_exception(tasks.exc, tasks.msg))
  ELSE Out(fs, success_result("Found upcoming tasks", ListData(sorted, "json")))

\* {'high': 0, 'medium': 1, 'low': 2}.get(t.priority.value, 3)
priority_rank(priority) ==
  CASE priority = "high" -> 0
    [] priority = "medium" -> 1
    [] priority = "low" -> 2
    [] OTHER -> 3

\* A slip: the days come first in the key, the rank second.
overdue_key_days_first(task, t) ==
  <<IF days_until_due(task, t).none THEN 0 ELSE days_until_due(task, t).days,
    priority_rank(task.priority)>>

\* (rank, t.days_until_due() or 0)
overdue_key(task, t) ==
  <<priority_rank(task.priority),
    IF days_until_due(task, t).none THEN 0 ELSE days_until_due(task, t).days>>

\* get_overdue_tasks() at instant t.
get_overdue_tasks(fs, t) ==
  LET task_dicts == load_tasks(fs)
      tasks == tasks_from_dicts(task_dicts.v)
      overdue == select(tasks.v, {k \in 1..Len(tasks.v) : is_overdue(tasks.v[k], t)})
      sorted == sorted_by(overdue, [k \in 1..Len(overdue) |-> overdue_key(overdue[k], t)],
                          FALSE)
  IN
  IF task_dicts.exc # "none" THEN Out(fs, query_on_exception(task_dicts.exc, task_dicts.msg))
  ELSE IF tasks.exc # "none" THEN Out(fs, query_on_exception(tasks.exc, tasks.msg))
  ELSE Out(fs, success_result("Found overdue tasks", ListData(sorted, "json")))

\* ------------------------------------------------------------------ phase-2-web

\* validate_task_title(title) and validate_task_category(category): (True, None), or
\* (False, the error).
Valid == [valid |-> TRUE, error |-> NoWord]
Invalid(error) == [valid |-> FALSE, error |-> error]

validate_task_title(title) ==
  IF title = None \/ title = <<>> THEN Invalid("Title is required and cannot be empty")
  ELSE IF Strip(title) = <<>> THEN Invalid("Title is required and cannot be empty")
  ELSE IF Len(title) > WEB_MAX_TITLE_LENGTH THEN Invalid("Title cannot exceed 500 characters")
  ELSE Valid

validate_task_category(category) ==
  IF category = None \/ category = <<>> THEN Valid
  ELSE IF Len(category) > WEB_MAX_CATEGORY_LENGTH
       THEN Invalid("Category cannot exceed 100 characters")
  ELSE Valid

\* session.get(Task, task_id): the row of that key, or None.
get_task_by_id(session, task_id) ==
  LET found == {k \in 1..Len(session) : session[k].id = task_id} IN
  IF found = {} THEN <<>> ELSE <<session[CHOOSE k \in found : TRUE]>>

\* db_crud_skill.create_task: the row is added under the key the database gives it.
db_create_task(session, key, user_id, title, priority, category) ==
  Append(session, [id |-> key, title |-> title, description |-> None, is_completed |-> FALSE,
                   priority |-> priority, category |-> category, due_date |-> NoTime,
                   is_recurring |-> FALSE, user_id |-> user_id])

\* db_crud_skill.update_task: the fields that are not None are assigned to the row.
db_update_task(session, task, title, is_completed, priority, category) ==
  LET row == [task EXCEPT
                !.title = IF title # None THEN title ELSE @,
                !.is_completed = IF is_completed # NoFlag THEN is_completed[1] ELSE @,
                !.priority = IF priority # NoWord THEN priority ELSE @,
                !.category = IF category # None THEN category ELSE @]
  IN [k \in 1..Len(session) |-> IF session[k].id = task.id THEN row ELSE session[k]]

\* db_crud_skill.delete_task.
db_delete_task(session, task) ==
  select(session, {k \in 1..Len(session) : session[k].id # task.id})

\* The dict an orchestrator method returns, and the session as it leaves it.
WebResult(session, success, task, error) ==
  [session |-> session, success |-> success, task |-> task, error |-> error]

TaskOrchestrator_create_task(session, key, user_id, title, priority, category) ==
  IF ~validate_task_title(title).valid
  THEN WebResult(session, FALSE, <<>>, validate_task_title(title).error)
  ELSE IF ~validate_task_category(category).valid
       THEN WebResult(session, FALSE, <<>>, validate_task_category(category).error)
  ELSE LET created == db_create_task(session, key, user_id, title, priority, category) IN
       WebResult(created, TRUE, get_task_by_id(created, key), NoWord)

\* A slip: the owner of the task is not compared with the caller.
TaskOrchestrator_update_task_any_user(session, task_id, user_id, title, is_completed, priority, category) ==
  LET task == get_task_by_id(session, task_id) IN
  IF task = <<>> THEN WebResult(session, FALSE, <<>>, "Task not found")
  ELSE IF title # None /\ ~validate_task_title(title).valid
       THEN WebResult(session, FALSE, <<>>, validate_task_title(title).error)
  ELSE IF category # None /\ ~validate_task_category(category).valid
       THEN WebResult(session, FALSE, <<>>, validate_task_category(category).error)
  ELSE LET updated == db_update_task(session, task[1], title, is_completed, priority, category)
       IN WebResult(updated, TRUE, get_task_by_id(updated, task_id), NoWord)

TaskOrchestrator_update_task(session, task_id, user_id, title, is_completed, priority, category) ==
  LET task == get_task_by_id(session, task_id) IN
  IF task = <<>> THEN WebResult(session, FALSE, <<>>, "Task not found")
  ELSE IF task[1].user_id # user_id THEN WebResult(session, FALSE, <<>>, "Task not found")
  ELSE IF title # None /\ ~validate_task_title(title).valid
       THEN WebResult(session, FALSE, <<>>, validate_task_title(title).error)
  ELSE IF category # None /\ ~validate_task_category(category).valid
       THEN WebResult(session, FALSE, <<>>, validate_task_category(category).error)
  ELSE LET updated == db_update_task(session, task[1], title, is_completed, priority, category)
       IN WebResult(updated, TRUE, get_task_by_id(updated, task_id), NoWord)

\* delete_task returns a dict without a task.
TaskOrchestrator_delete_task(session, task_id, user_id) ==
  LET task == get_task_by_id(session, task_id) IN
  IF task = <<>> THEN WebResult(session, FALSE, <<>>, "Task not found")
  ELSE IF task[1].user_id # user_id THEN WebResult(session, FALSE, <<>>, "Task not found")
  ELSE WebResult(db_delete_task(session, task[1]), TRUE, <<>>, NoWord)

\* ------------------------------------------------------------------ the program

VARIABLES
  fs,        \* todos.json and todos.json.tmp
  now,       \* the clock, datetime.utcnow()
  faults,    \* the disk faults injected so far
  writes,    \* the calls that rewrote todos.json so far
  assigned,  \* the ids of the successful add_task calls, in call order
  procs,     \* two processes on one store: where each is in its call, and its locals
  renames,   \* the os.replace calls that succeeded so far
  arg,       \* the string a validator is called with
  ret,       \* what the validator returned or raised
  db         \* the rows of the tasks table of the web application

vars == <<fs, now, faults, writes, assigned, procs, renames, arg, ret, db>>

\* ---- the arguments the calls are made with

TooLongTitle == [i \in 1..(MAX_TITLE_LENGTH + 1) |-> "x"]
TooLongCategory == [i \in 1..(MAX_CATEGORY_LENGTH + 1) |-> "c"]

Titles == {<<>>, <<" ">>, <<"a">>, <<" ", "b", " ">>, TooLongTitle}
Priorities == {"", "HIGH", "urgent"}
Categories == {<<>>, <<" ", "w">>, TooLongCategory}
Statuses == {"", "pending", "in_progress", "Completed", "done"}
Dues == {EmptyDue, [kind |-> "z", t |-> 1, off |-> 0], [kind |-> "bad", t |-> 0, off |-> 0]}

TaskIds == 1..MaxWrites

\* The arguments of one call; an argument that is not given is None.
Args(title, priority, category, status, due_date) ==
  [title |-> title, priority |-> priority, category |-> category, status |-> status,
   due_date |-> due_date]

NoArgs == Args(None, NoWord, None, NoWord, NoDue)

\* The calls that give one field, and the calls that give two.
OneField ==
  {[NoArgs EXCEPT !.title = t] : t \in Titles}
  \cup {[NoArgs EXCEPT !.priority = p] : p \in Priorities}
  \cup {[NoArgs EXCEPT !.category = c] : c \in Categories}
  \cup {[NoArgs EXCEPT !.status = s] : s \in Statuses}
  \cup {[NoArgs EXCEPT !.due_date = d] : d \in Dues}

TwoFields ==
  {[f \in DOMAIN NoArgs |-> IF a[f] # NoArgs[f] THEN a[f] ELSE b[f]] : a \in OneField, b \in OneField}
  \ OneField

\* update_task is called with no field or with one.
UpdateArgs == {NoArgs} \cup OneField

\* add_task is called with a title and its defaults, or with a title that is valid and
\* one of the optional arguments.
AddDefaults == Args(<<"a">>, "medium", DEFAULT_CATEGORY, NoWord, NoDue)

AddArgs ==
  {[AddDefaults EXCEPT !.title = t] : t \in Titles}
  \cup {[AddDefaults EXCEPT !.priority = p] : p \in Priorities}
  \cup {[AddDefaults EXCEPT !.category = c] : c \in Categories}
  \cup {[AddDefaults EXCEPT !.due_date = d] : d \in Dues}

\* The disk faults a save can meet, and whether the cleanup of the finally clause works.
AllFaults ==
  {[fault |-> "none", removeOk |-> TRUE], [fault |-> "kill", removeOk |-> TRUE]}
  \cup {[fault |-> f, removeOk |-> r] : f \in {"open", "write", "replace"}, r \in BOOLEAN}

NoFault == [fault |-> "none", removeOk |-> TRUE]

\* The faults that can still strike.
Faults == IF faults < MaxFaults /\ writes < MaxWrites THEN AllFaults ELSE {NoFault}

\* A disk that never fails.
Sound == {NoFault}

EmptyFs == [todos |-> NoFile, tmp |-> NoFile]

\* No validator was called yet.
NotCalled == [exc |-> "not called", v |-> <<>>, msg |-> ""]

\* The processes of the concurrent program, and a process that has not called yet.
Procs == {1, 2}
NotYet == 0 - 1
IdleProc ==
  [pc |-> "idle", kind |-> "none", task_id |-> 0, task |-> <<>>, tasks |-> <<>>,
   exc |-> "none", res |-> Killed, id_at |-> NotYet, load_at |-> NotYet, save_at |-> NotYet]

Init ==
  /\ fs = EmptyFs
  /\ now = 0
  /\ faults = 0
  /\ writes = 0
  /\ assigned = <<>>
  /\ procs = [p \in Procs |-> IdleProc]
  /\ renames = 0
  /\ db = <<>>
  /\ arg = <<>>
  /\ ret = NotCalled

\* The records of todos.json, as load_tasks returns them.
StoredTasks == IF load_tasks(fs).exc = "none" THEN load_tasks(fs).v ELSE <<>>

\* A call leaves the file system as the skill left it; a fault counts when it struck,
\* that is, when the call reached its save.
Finish(out, f) ==
  LET saved == f.fault # "none" \/ out.fs.todos # fs.todos IN
  /\ f.fault # "none" => out.fs # fs \/ out.res.error_code = STORAGE_ERROR
  /\ saved => writes < MaxWrites
  /\ fs' = out.fs
  /\ writes' = IF saved THEN writes + 1 ELSE writes
  /\ faults' = IF f.fault # "none" THEN faults + 1 ELSE faults
  /\ UNCHANGED <<procs, renames, arg, ret, db>>

AddTask(F) ==
  \E a \in AddArgs, f \in F :
    LET out == add_task(fs, a.title, a.priority, a.category, a.due_date, now,
                        f.fault, f.removeOk)
    IN
    /\ Len(StoredTasks) < MaxTasks
    /\ Finish(out, f)
    /\ assigned' = IF out.res.success
                   THEN Append(assigned, out.res.data.tasks[1].id) ELSE assigned
    /\ UNCHANGED now

UpdateTask(F) ==
  \E i \in TaskIds, a \in UpdateArgs, f \in F :
    LET out == update_task(fs, i, a.title, a.priority, a.category, a.status, a.due_date,
                           now, f.fault, f.removeOk)
    IN
    /\ Finish(out, f)
    /\ UNCHANGED <<now, assigned>>

CompleteTask(F) ==
  \E i \in TaskIds, uncomplete \in BOOLEAN, toggle \in BOOLEAN, f \in F :
    LET out == complete_task(fs, i, uncomplete, toggle, now, now, f.fault, f.removeOk)
    IN
    /\ Finish(out, f)
    /\ UNCHANGED <<now, assigned>>

DeleteTask(F) ==
  \E i \in TaskIds, force \in BOOLEAN, f \in F :
    LET out == delete_task(fs, i, force, f.fault, f.removeOk)
    IN
    /\ Finish(out, f)
    /\ UNCHANGED <<now, assigned>>

\* The program on a disk that never fails. The calls of a run are made at one reading
\* of the clock.
Next ==
  \/ AddTask(Sound)
  \/ UpdateTask(Sound)
  \/ CompleteTask(Sound)
  \/ DeleteTask(Sound)

Spec == Init /\ [][Next]_vars

\* The program on a disk that fails.
NextFaulty ==
  \/ AddTask(Faults)
  \/ UpdateTask(Faults)
  \/ CompleteTask(Faults)
  \/ DeleteTask(Faults)

SpecFaulty == Init /\ [][NextFaulty]_vars

\* ---- two processes on one store

\* Each process makes one call, of a task of its own: process p adds a task with a
\* title of its own, or raises the priority of task p, or deletes task p with force.
ProcTitle(p) == IF p = 1 THEN <<"a">> ELSE <<" ", "b", " ">>
Other(p) == 3 - p

\* The store the processes start on: two tasks, added by two add_task calls.
StartFs ==
  LET one == add_task(EmptyFs, <<"x">>, "medium", DEFAULT_CATEGORY, NoDue, 0, "none", TRUE)
  IN add_task(one.fs, <<"y">>, "medium", DEFAULT_CATEGORY, NoDue, 0, "none", TRUE).fs

InitConc ==
  /\ fs = StartFs
  /\ now = 0
  /\ faults = 0
  /\ writes = 0
  /\ assigned = <<>>
  /\ procs = [p \in Procs |-> IdleProc]
  /\ renames = 0
  /\ db = <<>>
  /\ arg = <<>>
  /\ ret = NotCalled

\* A step of process p: its locals change, the disk and the count of renames as given.
Step(p, proc, disk, count) ==
  /\ procs' = [procs EXCEPT ![p] = proc]
  /\ fs' = disk
  /\ renames' = count
  /\ UNCHANGED <<now, faults, writes, assigned, arg, ret, db>>

\* add_task up to the Task it creates: the validation, get_next_id, Task(...).
AddCall(p) ==
  /\ procs[p].pc = "idle"
  /\ LET title == validate_title(ProcTitle(p))
         task_id == get_next_id(fs)
         task == Task_new(task_id.v, title.v, "medium", DEFAULT_CATEGORY, NoDue, now)
     IN Step(p, [procs[p] EXCEPT !.pc = "load", !.kind = "add", !.task_id = task_id.v,
                                 !.task = <<task.v>>, !.id_at = renames],
             fs, renames)

\* update_task and delete_task up to the call of the storage function:
\* find_task_by_id, and the not-found return.
FindCall(p, kind) ==
  LET task_dict == find_task_by_id(fs, p) IN
  IF task_dict.v = <<>>
  THEN [procs[p] EXCEPT !.pc = "done", !.kind = kind, !.task_id = p,
                        !.res = error_result("Task not found", NOT_FOUND)]
  ELSE [procs[p] EXCEPT !.pc = "load", !.kind = kind, !.task_id = p,
                        !.task = task_dict.v, !.id_at = renames]

\* update_task(p, priority="HIGH")
UpdateCall(p) ==
  /\ procs[p].pc = "idle"
  /\ Step(p, FindCall(p, "update"), fs, renames)

\* delete_task(p, force=True)
DeleteCall(p) ==
  /\ procs[p].pc = "idle"
  /\ Step(p, FindCall(p, "delete"), fs, renames)

\* load_tasks() and the list the call will save: the loaded list with the new task
\* appended, with the task updated, or without the task.
Load(p) ==
  /\ procs[p].pc = "load"
  /\ LET tasks == load_tasks(fs).v
         updates == build_updates(None, "HIGH", None, NoWord, NoDue).v
         updated == update_in_list(tasks, procs[p].task_id, updates, now)
         filtered_tasks == filter_out(tasks, procs[p].task_id)
         failed == [procs[p] EXCEPT !.pc = "done", !.load_at = renames,
                                    !.res = error_result("Failed", STORAGE_ERROR)]
         loaded(list) == [procs[p] EXCEPT !.pc = "write", !.load_at = renames, !.tasks = list]
     IN CASE procs[p].kind = "add" ->
               Step(p, loaded(Append(tasks, procs[p].task[1])), fs, renames)
          [] procs[p].kind = "update" ->
               Step(p, IF updated.found THEN loaded(updated.tasks) ELSE failed, fs, renames)
          [] OTHER ->
               Step(p, IF Len(filtered_tasks) # Len(tasks) THEN loaded(filtered_tasks) ELSE failed,
                    fs, renames)

\* save_tasks: the list is written to todos.json.tmp, the one name both processes use.
WriteTmp(p) ==
  /\ procs[p].pc = "write"
  /\ Step(p, [procs[p] EXCEPT !.pc = "replace"], [fs EXCEPT !.tmp = File(procs[p].tasks)],
          renames)

\* save_tasks: os.replace(temp_file, TODOS_FILE), which raises if the temporary file is
\* not there any more.
Replace(p) ==
  /\ procs[p].pc = "replace"
  /\ IF fs.tmp.exists
     THEN Step(p, [procs[p] EXCEPT !.pc = "cleanup", !.save_at = renames + 1],
               [todos |-> fs.tmp, tmp |-> NoFile], renames + 1)
     ELSE Step(p, [procs[p] EXCEPT !.pc = "cleanup", !.exc = "StorageError"], fs, renames)

\* save_tasks: the finally clause, which removes todos.json.tmp if it is there.
Cleanup(p) ==
  /\ procs[p].pc = "cleanup"
  /\ Step(p, [procs[p] EXCEPT !.pc = "result"], save_cleanup(fs, TRUE), renames)

\* What the skill returns after its save; update_task reads the task once more.
Result(p) ==
  /\ procs[p].pc = "result"
  /\ LET again == find_task_by_id(fs, procs[p].task_id)
         data == CASE procs[p].kind = "update" ->
                        IF again.v = <<>> THEN NoData ELSE TaskData(again.v[1])
                   [] OTHER -> TaskData(procs[p].task[1])
         res == IF procs[p].exc # "none"
                THEN on_exception(procs[p].exc, "Disk error")
                ELSE success_result("done", data)
     IN Step(p, [procs[p] EXCEPT !.pc = "done", !.res = res], fs, renames)

NextConc ==
  \E p \in Procs :
    \/ AddCall(p)
    \/ UpdateCall(p)
    \/ DeleteCall(p)
    \/ Load(p)
    \/ WriteTmp(p)
    \/ Replace(p)
    \/ Cleanup(p)
    \/ Result(p)

\* Two processes on one store, their file operations interleaved in any order.
SpecConc == InitConc /\ [][NextConc]_vars

\* ---- the validators on their own

\* The titles validate_title is called with: a body of x's, with one space inside when
\* it is long enough, of a length around the limits, between two runs of whitespace
\* of at most MaxPad characters.
Pads == UNION {[1..n -> {" ", "\t"}] : n \in 0..MaxPad}
BodyLengths == {0, 1, 3, MAX_TITLE_LENGTH - 1, MAX_TITLE_LENGTH, MAX_TITLE_LENGTH + 1}
Body(n) == [i \in 1..n |-> IF i = 2 /\ n > 2 THEN " " ELSE "x"]
TitleInputs == {l \o Body(n) \o r : l \in Pads, r \in Pads, n \in BodyLengths}

InitValidate ==
  /\ fs = EmptyFs
  /\ now = 0
  /\ faults = 0
  /\ writes = 0
  /\ assigned = <<>>
  /\ procs = [p \in Procs |-> IdleProc]
  /\ renames = 0
  /\ db = <<>>
  /\ arg \in TitleInputs
  /\ ret = NotCalled

ValidateTitle ==
  /\ ret = NotCalled
  /\ ret' = validate_title(arg)
  /\ UNCHANGED <<fs, now, faults, writes, assigned, procs, renames, arg, db>>

NextValidate == ValidateTitle

SpecValidate == InitValidate /\ [][NextValidate]_vars

\* The due dates validate_due_date is called with: a date, a naive datetime, a datetime
\* with Z and one with an offset of at most a day either way, read within the days
\* after the start of the clock, a text that is no date, the empty string and None.
DueTimes == 0..(2 * DayLen + 1)
DueOffsets == (0 - DayLen)..DayLen
DueInputs ==
  {[kind |-> k, t |-> t, off |-> 0] : k \in {"date", "naive", "z"}, t \in DueTimes}
  \cup {[kind |-> "offset", t |-> t, off |-> o] : t \in DueTimes, o \in DueOffsets}
  \cup {[kind |-> "bad", t |-> 0, off |-> 0], EmptyDue, NoDue}

InitDue ==
  /\ fs = EmptyFs
  /\ now = 0
  /\ faults = 0
  /\ writes = 0
  /\ assigned = <<>>
  /\ procs = [p \in Procs |-> IdleProc]
  /\ renames = 0
  /\ db = <<>>
  /\ arg \in DueInputs
  /\ ret = NotCalled

ValidateDueDate ==
  /\ ret = NotCalled
  /\ ret' = validate_due_date(arg)
  /\ UNCHANGED <<fs, now, faults, writes, assigned, procs, renames, arg, db>>

NextDue == ValidateDueDate

SpecDue == InitDue /\ [][NextDue]_vars

\* ---- the web application: users create, update and delete rows of the tasks table
\* through the TaskOrchestrator.

Users == {"u1", "u2"}
WebKeys == 1..MaxWrites
TooLongWebTitle == [i \in 1..(WEB_MAX_TITLE_LENGTH + 1) |-> "x"]
TooLongWebCategory == [i \in 1..(WEB_MAX_CATEGORY_LENGTH + 1) |-> "c"]

WebArgs(title, is_completed, priority, category) ==
  [title |-> title, is_completed |-> is_completed, priority |-> priority, category |-> category]

\* update_task is called with no field, or with one.
WebUpdates ==
  {WebArgs(None, NoFlag, NoWord, None)}
  \cup {WebArgs(t, NoFlag, NoWord, None) : t \in {<<"b">>, <<" ">>, <<>>, TooLongWebTitle}}
  \cup {WebArgs(None, <<TRUE>>, NoWord, None)}
  \cup {WebArgs(None, NoFlag, NoWord, c) : c \in {<<"w">>, TooLongWebCategory}}

WebCreates ==
  {WebArgs(t, NoFlag, "Medium", None) : t \in {<<"a">>, <<" ">>}}
  \cup {WebArgs(<<"a">>, NoFlag, "Medium", TooLongWebCategory)}

InitWeb ==
  /\ fs = EmptyFs
  /\ now = 0
  /\ faults = 0
  /\ writes = 0
  /\ assigned = <<>>
  /\ procs = [p \in Procs |-> IdleProc]
  /\ renames = 0
  /\ arg = <<>>
  /\ ret = NotCalled
  /\ db = <<>>

\* The key the database gives a new row: one more than the largest key of the table
\* (the rowid of SQLite, the engine of the tests).
NextKey == IF db = <<>> THEN 1 ELSE 1 + max_id(db)

\* The session is committed as the orchestrator left it.
WebCreateTask ==
  \E u \in Users, a \in WebCreates :
    /\ Len(db) < MaxTasks
    /\ NextKey \in WebKeys
    /\ db' = TaskOrchestrator_create_task(db, NextKey, u, a.title, a.priority, a.category).session
    /\ UNCHANGED <<fs, now, faults, writes, assigned, procs, renames, arg, ret>>

WebUpdateTask ==
  \E u \in Users, a \in WebUpdates, i \in WebKeys :
    /\ db' = TaskOrchestrator_update_task(db, i, u, a.title, a.is_completed, a.priority,
                                          a.category).session
    /\ UNCHANGED <<fs, now, faults, writes, assigned, procs, renames, arg, ret>>

WebDeleteTask ==
  \E u \in Users, i \in WebKeys :
    /\ db' = TaskOrchestrator_delete_task(db, i, u).session
    /\ UNCHANGED <<fs, now, faults, writes, assigned, procs, renames, arg, ret>>

NextWeb ==
  \/ WebCreateTask
  \/ WebUpdateTask
  \/ WebDeleteTask

SpecWeb == InitWeb /\ [][NextWeb]_vars

\* ---- the queries: a store is built by add_task, set_due_date and complete_task calls
\* on a sound disk with the clock at 0, a record of todos.json may be edited by hand,
\* and the run ends with one query of the store, made at a later instant: arg is the
\* query and ret its result.

\* The instants the queries are made at.
QueryTimes == {1, 2, 3}

DueZ == [kind |-> "z", t |-> 2, off |-> 0]
DueOffset == [kind |-> "offset", t |-> 4, off |-> 2]
QueryDues == {DueZ, DueOffset, EmptyDue}

QueryAdds ==
  {Args(<<"a">>, "high", DEFAULT_CATEGORY, NoWord, NoDue),
   Args(<<"b">>, "low", <<"w">>, NoWord, NoDue)}

\* The values a hand-edited record holds that no validator accepts.
Corruptions == {[field |-> "priority", value |-> "urgent"], [field |-> "status", value |-> "done"]}

ListCall(status, priority, category, completed, overdue_only, sort_by, sort_order, limit, output_format, t) ==
  [op |-> "list", status |-> status, priority |-> priority, category |-> category,
   completed |-> completed, overdue_only |-> overdue_only, sort_by |-> sort_by,
   sort_order |-> sort_order, limit |-> limit, output_format |-> output_format, t |-> t]

\* list_tasks with every combination of the five predicates and the defaults for the
\* rest (the instant matters to overdue_only alone: at the due instant and after it),
\* and without a predicate for the sort keys, the limits and the formats.
FilterCalls ==
  {ListCall(s, p, c, d, FALSE, "id", "asc", NoLimit, "table", 2) :
     s \in {NoWord, "completed"}, p \in {NoWord, "high"}, c \in {None, <<"w">>},
     d \in {NoFlag, <<FALSE>>}}
  \cup
  {ListCall(s, p, c, d, TRUE, "id", "asc", NoLimit, "table", t) :
     s \in {NoWord, "completed"}, p \in {NoWord, "high"}, c \in {None, <<"w">>},
     d \in {NoFlag, <<FALSE>>}, t \in {2, 3}}

SortCalls ==
  {ListCall("all", NoWord, None, NoFlag, FALSE, k, "asc", NoLimit, "json", 2) :
     k \in {"title", "priority", "due_date", "is_overdue", "rank"}}
  \cup
  {ListCall("all", NoWord, None, NoFlag, FALSE, k, "desc", 1, "simple", 2) :
     k \in {"title", "priority", "due_date", "is_overdue", "rank"}}

ListCalls == FilterCalls \cup SortCalls \cup
  {ListCall("done", NoWord, None, NoFlag, FALSE, "id", "asc", 0, "table", 2)}

UpcomingCalls == {[op |-> "upcoming", days |-> d, t |-> t] : d \in {0, 1}, t \in QueryTimes}
\* get_overdue_tasks is also called once every due date is past.
OverdueCalls == {[op |-> "overdue", t |-> t] : t \in QueryTimes \cup {5}}

InitQuery ==
  /\ fs = EmptyFs
  /\ now = 0
  /\ faults = 0
  /\ writes = 0
  /\ assigned = <<>>
  /\ procs = [p \in Procs |-> IdleProc]
  /\ renames = 0
  /\ db = <<>>
  /\ arg = <<>>
  /\ ret = NotCalled

\* A call that builds the store: the file system is as the skill left it.
Built(out) ==
  /\ fs' = out.fs
  /\ UNCHANGED <<now, faults, writes, assigned, procs, renames, arg, ret, db>>

\* The query of the run: the file system is as the skill left it, too.
Asked(call, out) ==
  /\ fs' = out.fs
  /\ arg' = call
  /\ ret' = out.res
  /\ UNCHANGED <<now, faults, writes, assigned, procs, renames, db>>

QueryAdd ==
  \E a \in QueryAdds :
    /\ ret = NotCalled
    /\ Len(StoredTasks) < MaxTasks
    /\ Built(add_task(fs, a.title, a.priority, a.category, a.due_date, now, "none", TRUE))

SetDueDate ==
  \E i \in 1..MaxTasks, d \in QueryDues :
    /\ ret = NotCalled
    /\ Built(set_due_date(fs, i, d, now, "none", TRUE))

QueryComplete ==
  \E i \in 1..MaxTasks :
    /\ ret = NotCalled
    /\ Built(complete_task(fs, i, FALSE, FALSE, now, now, "none", TRUE))

\* todos.json is edited by hand: one field of its first record gets a value that the
\* application never writes. The file is edited once.
HandEdit ==
  \E c \in Corruptions :
    /\ ret = NotCalled
    /\ StoredTasks # <<>>
    /\ tasks_from_dicts(StoredTasks).exc = "none"
    /\ fs' = [fs EXCEPT !.todos.data[1] =
                [f \in DOMAIN @ |-> IF f = c.field THEN c.value ELSE @[f]]]
    /\ UNCHANGED <<now, faults, writes, assigned, procs, renames, arg, ret, db>>

ListTasks ==
  \E a \in ListCalls :
    /\ ret = NotCalled
    /\ Asked(a, list_tasks(fs, a.status, a.priority, a.category, a.completed, a.overdue_only,
                          a.sort_by, a.sort_order, a.limit, a.output_format, a.t))

GetUpcomingTasks ==
  \E a \in UpcomingCalls :
    /\ ret = NotCalled
    /\ Asked(a, get_upcoming_tasks(fs, a.days, a.t))

GetOverdueTasks ==
  \E a \in OverdueCalls :
    /\ ret = NotCalled
    /\ Asked(a, get_overdue_tasks(fs, a.t))

NextQuery ==
  \/ QueryAdd
  \/ SetDueDate
  \/ QueryComplete
  \/ HandEdit
  \/ ListTasks
  \/ GetUpcomingTasks
  \/ GetOverdueTasks

SpecQuery == InitQuery /\ [][NextQuery]_vars

\* ------------------------------------------------------------------ properties

\* The stored record of this id; only used where there is one.
Stored(task_id) == find_task_by_id(fs, task_id).v[1]
Exists(task_id) == find_task_by_id(fs, task_id).v # <<>>
Range(seq) == {seq[k] : k \in 1..Len(seq)}

\* C1. Id monotonicity: the k-th successful add_task of a run that starts on an empty
\* store is given the id k, whatever was deleted in between, so that no id is given
\* twice.
C1_IdMonotonic == \A k \in 1..Len(assigned) : assigned[k] = k

\* C2. Status/completed coupling: every stored task has completed = true if and only
\* if its status is completed.
C2_StatusCompletedCoupled ==
  \A k \in 1..Len(StoredTasks) :
    StoredTasks[k].completed <=> StoredTasks[k].status = "completed"

\* The lists a skill may hand to save_tasks in this state: the stored list, the stored
\* list without one of its records, and the stored list with one more record.
SavedLists ==
  {StoredTasks}
  \cup {filter_out(StoredTasks, i) : i \in TaskIds}
  \cup {Append(StoredTasks, Task_new(get_next_id(fs).v, <<"a">>, "medium", DEFAULT_CATEGORY,
                                     NoDue, now).v)}

\* C3. Atomic write: in every state the disk can be in, interrupted saves left behind
\* or not, a save_tasks that fails or is interrupted leaves todos.json exactly as it
\* was, and a save_tasks that succeeds leaves todos.json holding the whole list and no
\* temporary file.
C3_AtomicWrite ==
  \A tasks \in SavedLists, f \in AllFaults :
    LET saved == save_tasks(fs, tasks, f.fault, f.removeOk) IN
    IF f.fault = "none"
    THEN saved.exc = "none" /\ saved.fs.todos = File(tasks) /\ ~saved.fs.tmp.exists
    ELSE saved.exc # "none" /\ saved.fs.todos = fs.todos

\* C3 witness: a save was interrupted after the temporary file was written, the
\* temporary file is still there, and todos.json holds the list it held before.
C3_Witness ==
  /\ faults > 0
  /\ fs.tmp.exists /\ fs.tmp.complete
  /\ fs.todos.exists /\ fs.todos.complete
  /\ fs.tmp.data # fs.todos.data

\* C6. Scenario C: update_task(id, title="") on a stored task fails with the
\* validation error code and the empty-title error, and leaves the store as it was.
C6_EmptyTitleRejected ==
  \A i \in TaskIds :
    Exists(i) =>
      LET out == update_task(fs, i, <<>>, NoWord, None, NoWord, NoDue, now, "none", TRUE) IN
      /\ ~out.res.success
      /\ out.res.error_code = VALIDATION_ERROR
      /\ out.res.error = validate_title(<<>>).msg
      /\ out.fs = fs

\* C7. Two-phase delete: on a stored task, delete_task(id, force=False) succeeds with
\* confirmation_required and the found task and leaves the disk as it was;
\* delete_task(id, force=True) succeeds, find_task_by_id returns None afterwards, and
\* the other records are kept in their order.
C7_TwoPhaseDelete ==
  \A i \in TaskIds :
    Exists(i) =>
      LET asked == delete_task(fs, i, FALSE, "none", TRUE)
          forced == delete_task(fs, i, TRUE, "none", TRUE)
      IN
      /\ asked.res.success
      /\ asked.res.data.confirmation_required
      /\ asked.res.data.tasks = <<Stored(i)>>
      /\ asked.fs = fs
      /\ forced.res.success
      /\ ~forced.res.data.confirmation_required
      /\ find_task_by_id(forced.fs, i) = Return(<<>>)
      /\ \A j \in TaskIds \ {i} : find_task_by_id(forced.fs, j) = find_task_by_id(fs, j)
      /\ Len(forced.fs.todos.data) = Len(StoredTasks) - 1

\* C7 witness: a task that add_task created was deleted by a forced delete_task, and
\* another task is still stored.
C7_Witness ==
  /\ StoredTasks # <<>>
  /\ \E i \in Range(assigned) : ~Exists(i)

\* Every choice of the four arguments of add_task.
AllAddArgs ==
  {Args(t, p, c, NoWord, d) : t \in Titles, p \in Priorities, c \in Categories, d \in Dues}

\* One of the validations of add_task fails on these arguments.
FailsValidation(a) ==
  \/ validate_title(a.title).exc # "none"
  \/ Priority_from_string(a.priority).exc # "none"
  \/ validate_category(a.category).exc # "none"
  \/ TruthyDue(a.due_date) /\ validate_due_date(a.due_date).exc # "none"

InvalidAddArgs == {a \in AllAddArgs : FailsValidation(a)}

\* A disk on which the next rename fails and the temporary file cannot be removed.
RenameFault == [fault |-> "replace", removeOk |-> FALSE]

\* C8. Create validates before allocating: an add_task call one of whose arguments
\* fails validation returns the validation error and leaves the disk as it was, even
\* on a disk whose next write would fail, so that get_next_id answers as before and
\* the next successful add_task is given the id it would have been given without the
\* failed call.
C8_ValidateBeforeAllocate ==
  LET refused(a, f) == add_task(fs, a.title, a.priority, a.category, a.due_date, now,
                                f.fault, f.removeOk)
      next_add(disk) == add_task(disk, <<"a">>, "medium", DEFAULT_CATEGORY, NoDue, now,
                                 "none", TRUE)
      left == {refused(a, NoFault).fs : a \in InvalidAddArgs}
                \cup {refused(a, RenameFault).fs : a \in InvalidAddArgs \cap AddArgs}
  IN
  /\ \A a \in InvalidAddArgs :
       /\ ~refused(a, NoFault).res.success
       /\ refused(a, NoFault).res.error_code = VALIDATION_ERROR
  /\ \A a \in InvalidAddArgs \cap AddArgs :
       /\ ~refused(a, RenameFault).res.success
       /\ refused(a, RenameFault).res.error_code = VALIDATION_ERROR
  /\ \A disk \in left :
       /\ disk = fs
       /\ get_next_id(disk) = get_next_id(fs)
       /\ next_add(disk).res.success
       /\ next_add(disk).res.data.tasks[1].id = next_add(fs).res.data.tasks[1].id

\* C8 witness: the store holds tasks, so that the next id is not 1, and a call with a
\* valid title and a due date that cannot be parsed is refused.
C8_Witness ==
  /\ StoredTasks # <<>>
  /\ get_next_id(fs).v > 1
  /\ \E a \in InvalidAddArgs :
       /\ validate_title(a.title).exc = "none" /\ a.due_date.kind = "bad"
       /\ add_task(fs, a.title, a.priority, a.category, a.due_date, now, "none", TRUE)
            .res.error_code = VALIDATION_ERROR

\* C9. Completion consistency: a complete_task that marks complete (the default flags,
\* or toggle on a task whose completed flag is false) leaves the stored task with
\* completed = true, status = completed and completed_at set; one that marks
\* incomplete (uncomplete, or toggle on a task whose completed flag is true) leaves
\* it with completed = false, status = pending and completed_at = None; whatever the
\* task was before.
C9_CompletionConsistency ==
  \A i \in TaskIds, uncomplete \in BOOLEAN, toggle \in BOOLEAN :
    Exists(i) =>
      LET out == complete_task(fs, i, uncomplete, toggle, now, now, "none", TRUE)
          marks_complete == IF toggle THEN ~Stored(i).completed ELSE ~uncomplete
          task == find_task_by_id(out.fs, i).v[1]
      IN
      /\ out.res.success
      /\ marks_complete =>
           task.completed /\ task.status = "completed" /\ task.completed_at # NoTime
      /\ ~marks_complete =>
           ~task.completed /\ task.status = "pending" /\ task.completed_at = NoTime

\* C9 witness: a stored task that complete_task marked complete.
C9_Witness ==
  \E k \in 1..Len(StoredTasks) :
    /\ StoredTasks[k].completed /\ StoredTasks[k].status = "completed"
    /\ StoredTasks[k].completed_at # NoTime

\* An update_task call that fails leaves todos.json as it was.
FailedUpdateKeepsStore(i, a, f) ==
  LET out == update_task(fs, i, a.title, a.priority, a.category, a.status, a.due_date,
                         now, f.fault, f.removeOk)
  IN
  ~out.res.success => out.fs.todos = fs.todos

StoredIds == {i \in TaskIds : Exists(i)}

\* The calls that give two fields of which one passes its validator and one fails.
MixedFields ==
  {a \in TwoFields :
     LET ok == {<<a.title # None, validate_title(a.title).exc = "none">>,
                <<a.priority # NoWord, Priority_from_string(a.priority).exc = "none">>,
                <<a.category # None, validate_category(a.category).exc = "none">>,
                <<a.status # NoWord, Status_from_string(a.status).exc = "none">>,
                <<a.due_date # NoDue, validate_due_date(a.due_date).exc = "none">>}
     IN <<TRUE, TRUE>> \in ok /\ <<TRUE, FALSE>> \in ok}

\* C10. Update is all-or-nothing: an update_task call that returns a failure, be it
\* for no field, for an unknown id, for a field that fails its validator, alone or next
\* to a field that passes its own, or for the disk, leaves todos.json exactly as it was.
C10_UpdateAllOrNothing ==
  /\ \A i \in TaskIds, a \in UpdateArgs : FailedUpdateKeepsStore(i, a, NoFault)
  /\ \A i \in StoredIds, a \in MixedFields : FailedUpdateKeepsStore(i, a, NoFault)
  /\ \A i \in StoredIds, a \in UpdateArgs : FailedUpdateKeepsStore(i, a, RenameFault)

\* C10 witness: a stored task, and a call that gives a valid title other than the
\* stored one next to an invalid status, which is refused.
C10_Witness ==
  \E i \in TaskIds, a \in MixedFields :
    /\ Exists(i)
    /\ a.title # None /\ validate_title(a.title).exc = "none"
    /\ validate_title(a.title).v # Stored(i).title
    /\ a.status # NoWord /\ Status_from_string(a.status).exc # "none"
    /\ update_task(fs, i, a.title, a.priority, a.category, a.status, a.due_date,
                   now, "none", TRUE).res.error_code = VALIDATION_ERROR

\* ---- two processes on one store

Succeeded(p) == procs[p].pc = "done" /\ procs[p].res.success

\* Both processes called add_task, both calls reported success, and with one id.
SameId ==
  /\ \A p \in Procs : Succeeded(p) /\ procs[p].kind = "add"
  /\ procs[1].res.data.tasks[1].id = procs[2].res.data.tasks[1].id

\* C4. Duplicate ids under concurrent writers: two add_task calls that both report
\* success report the same id only if each of them read its next id before the
\* rename of the other; the race on get_next_id, and nothing else, gives one id twice.
C4_DuplicateIdsOnlyByRace ==
  SameId => \A p \in Procs : procs[p].id_at < procs[Other(p)].save_at

\* C4 witness: both add_task calls have reported success with the same id, and
\* todos.json holds two records of that id.
C4_Witness ==
  /\ SameId
  /\ Cardinality({k \in 1..Len(StoredTasks) : StoredTasks[k].id = procs[1].task_id}) = 2

\* The change the call of process p made is in todos.json: the task it added is there,
\* the task it updated has the priority it was given, the record it deleted is not there
\* (a task added later may be given the id of the deleted one).
Reflected(p) ==
  CASE procs[p].kind = "add" -> \E k \in 1..Len(StoredTasks) : StoredTasks[k] = procs[p].task[1]
    [] procs[p].kind = "update" -> Exists(p) /\ Stored(p).priority = "high"
    [] OTHER -> \A k \in 1..Len(StoredTasks) : StoredTasks[k] # procs[p].task[1]

\* C5. Lost update under concurrent writers: the change of a call that reported success
\* is missing from todos.json only if the other process loaded its list before the
\* rename of that call; calls whose load and save do not interleave lose nothing.
C5_LostUpdateOnlyByRace ==
  \A p \in Procs :
    Succeeded(p) /\ ~Reflected(p) =>
      /\ procs[Other(p)].load_at # NotYet
      /\ procs[Other(p)].load_at < procs[p].save_at

\* C5 witness: an update_task and a delete_task of another task have both reported
\* success, and todos.json holds the change of the later writer, the delete, and not
\* that of the earlier one.
C5_Witness ==
  \E p \in Procs :
    /\ Succeeded(p) /\ Succeeded(Other(p))
    /\ procs[p].kind = "update" /\ procs[Other(p)].kind = "delete"
    /\ procs[p].save_at < procs[Other(p)].save_at
    /\ ~Reflected(p) /\ Reflected(Other(p))

\* ---- ids, titles, defaults

Ids(tasks) == [k \in 1..Len(tasks) |-> tasks[k].id]

\* C11. Id uniqueness under a single writer: the ids of the stored tasks are positive
\* integers, no two stored tasks have one id, and no update_task or complete_task call
\* changes the id of a stored task.
C11_IdsUnique ==
  /\ \A k \in 1..Len(StoredTasks) : StoredTasks[k].id \in Nat \ {0}
  /\ \A j, k \in 1..Len(StoredTasks) : j # k => StoredTasks[j].id # StoredTasks[k].id
  /\ \A i \in TaskIds, a \in UpdateArgs :
       Ids(update_task(fs, i, a.title, a.priority, a.category, a.status, a.due_date,
                       now, "none", TRUE).fs.todos.data) = Ids(StoredTasks)
  /\ \A i \in TaskIds, uncomplete \in BOOLEAN, toggle \in BOOLEAN :
       Ids(complete_task(fs, i, uncomplete, toggle, now, now, "none", TRUE).fs.todos.data)
         = Ids(StoredTasks)

\* C11 witness: two tasks are stored, and one of them was updated or completed.
C11_Witness ==
  /\ Len(StoredTasks) = 2
  /\ \E k \in 1..Len(StoredTasks) : StoredTasks[k].updated_at # NoTime

\* Every title of the list is non-empty and is its own trimmed form.
TitlesTrimmed(tasks) ==
  \A k \in 1..Len(tasks) : tasks[k].title # <<>> /\ Strip(tasks[k].title) = tasks[k].title

\* The update_task calls that give a title and one more field.
TitleAndField == {a \in TwoFields : a.title # None}

\* C12. Title never persisted empty: every stored title is non-empty after trimming and
\* equals its trimmed form, whatever titles add_task and update_task were given, alone
\* or next to another field: empty, blank, padded or too long.
C12_TitleNeverEmpty ==
  /\ TitlesTrimmed(StoredTasks)
  /\ \A i \in StoredIds, a \in TitleAndField :
       TitlesTrimmed(update_task(fs, i, a.title, a.priority, a.category, a.status, a.due_date,
                                 now, "none", TRUE).fs.todos.data)

\* C12 witness: a stored task with another title, on which update_task with a padded
\* title stores the trimmed title and update_task with a blank title is refused.
C12_Witness ==
  \E i \in StoredIds :
    LET padded == update_task(fs, i, <<" ", "b", " ">>, NoWord, None, NoWord, NoDue,
                              now, "none", TRUE)
        blank == update_task(fs, i, <<" ">>, NoWord, None, NoWord, NoDue, now, "none", TRUE)
    IN
    /\ Stored(i).title # <<"b">>
    /\ padded.res.success /\ find_task_by_id(padded.fs, i).v[1].title = <<"b">>
    /\ blank.res.error_code = VALIDATION_ERROR

\* C17. Create defaults: add_task with a valid title and nothing else succeeds and
\* appends one task with priority medium, category general, status pending, completed
\* false and no due date, and with id 1 when the store is absent or empty; a category
\* that is empty or blank is stored as general.
C17_CreateDefaults ==
  \A title \in {<<"a">>, <<" ", "b", " ">>}, category \in {DEFAULT_CATEGORY, <<>>, <<" ">>} :
    LET out == add_task(fs, title, "medium", category, NoDue, now, "none", TRUE)
        tasks == out.fs.todos.data
        task == tasks[Len(tasks)]
    IN
    /\ out.res.success
    /\ Len(tasks) = Len(StoredTasks) + 1
    /\ SubSeq(tasks, 1, Len(StoredTasks)) = StoredTasks
    /\ out.res.data.tasks = <<task>>
    /\ task.priority = "medium" /\ task.category = DEFAULT_CATEGORY
    /\ task.status = "pending" /\ ~task.completed /\ task.due_date = NoDue
    /\ StoredTasks = <<>> => task.id = 1

\* C17 witness: the first add_task of a run, with a title only, has stored task 1.
C17_Witness ==
  /\ writes = 1
  /\ Len(StoredTasks) = 1
  /\ StoredTasks[1].id = 1 /\ StoredTasks[1].priority = "medium"
  /\ StoredTasks[1].category = DEFAULT_CATEGORY /\ StoredTasks[1].status = "pending"
  /\ ~StoredTasks[1].completed /\ StoredTasks[1].due_date = NoDue

\* ---- validate_title

\* trim(s): s without the whitespace before its first and after its last character
\* that is not whitespace; empty if it has none.
Trim(s) ==
  LET inked == {k \in 1..Len(s) : s[k] \notin Whitespace} IN
  IF inked = {} THEN <<>>
  ELSE SubSeq(s, CHOOSE k \in inked : \A j \in inked : k <= j,
                 CHOOSE k \in inked : \A j \in inked : k >= j)

\* C20. Title validation round-trip: validate_title(s) returns trim(s) when trim(s) has
\* between 1 and MAX_TITLE_LENGTH characters, raises the empty-title error when trim(s)
\* is empty, and raises the too-long error when trim(s) has more than MAX_TITLE_LENGTH
\* characters; the length tested is that of trim(s), not that of s.
C20_ValidateTitleRoundTrip ==
  ret # NotCalled =>
    IF Trim(arg) = <<>> THEN ret = Raise("ValueError", "Title cannot be empty")
    ELSE IF Len(Trim(arg)) > MAX_TITLE_LENGTH THEN ret = Raise("ValueError", "Title cannot exceed")
    ELSE ret = Return(Trim(arg))

\* C20 witness: a title longer than MAX_TITLE_LENGTH whose trimmed form has exactly
\* MAX_TITLE_LENGTH characters was accepted and returned trimmed.
C20_Witness ==
  /\ Len(arg) > MAX_TITLE_LENGTH
  /\ ret.exc = "none"
  /\ Len(ret.v) = MAX_TITLE_LENGTH
  /\ ret.v # arg
\* ---- the queries

\* The result of the list_tasks call a on the store as it is.
Listed(a) ==
  list_tasks(fs, a.status, a.priority, a.category, a.completed, a.overdue_only, a.sort_by,
             a.sort_order, a.limit, a.output_format, a.t).res

\* The stored records as Tasks.
AllTasks == tasks_from_dicts(StoredTasks).v

\* The call a without its predicates, and the calls that set one predicate of a alone.
Unfiltered(a) ==
  [a EXCEPT !.status = NoWord, !.priority = NoWord, !.category = None,
            !.completed = NoFlag, !.overdue_only = FALSE]
Alone(a) ==
  LET none == Unfiltered(a) IN
  {[none EXCEPT ![f] = a[f]] :
     f \in {g \in {"status", "priority", "category", "completed", "overdue_only"} :
              a[g] # none[g]}}

\* C13: the tasks list_tasks returns for a combination of the predicates status,
\* priority, category, completed and overdue_only are the tasks that each of its
\* predicates, set alone, returns; without a predicate every task is returned.
C13_FilterConjunction ==
  (ret # NotCalled /\ arg \in FilterCalls /\ ret.success) =>
    LET alone == {Range(Listed(c).data.tasks) : c \in Alone(arg)} IN
    Range(ret.data.tasks) = {x \in Range(AllTasks) : \A kept \in alone : x \in kept}

\* A filter of two predicates or more returned a task and left one out that one of its
\* predicates alone returns.
C13_Witness ==
  /\ ret # NotCalled
  /\ arg \in FilterCalls
  /\ ret.success
  /\ Cardinality(Alone(arg)) >= 2
  /\ Range(ret.data.tasks) # {}
  /\ \E c \in Alone(arg) : Range(ret.data.tasks) # Range(Listed(c).data.tasks)

\* The query arg, made on the store as it is.
Queried ==
  CASE arg.op = "list" ->
         list_tasks(fs, arg.status, arg.priority, arg.category, arg.completed,
                    arg.overdue_only, arg.sort_by, arg.sort_order, arg.limit,
                    arg.output_format, arg.t)
    [] arg.op = "upcoming" -> get_upcoming_tasks(fs, arg.days, arg.t)
    [] OTHER -> get_overdue_tasks(fs, arg.t)

\* C14: list_tasks (any filter, sort key, sort order, limit and format),
\* get_upcoming_tasks and get_overdue_tasks leave todos.json and its temporary file
\* as they were, and the same query made again at the same instant on the store the
\* first one left returns the same result and leaves the store again.
C14_QueriesPure ==
  /\ [][ret' # ret => fs' = fs]_vars
  /\ [](ret # NotCalled => LET again == Queried IN again.res = ret /\ again.fs = fs)

\* A sorted, limited list of a store of two tasks was returned.
C14_Witness ==
  /\ ret # NotCalled
  /\ arg.op = "list"
  /\ arg.sort_by = "priority"
  /\ arg.limit = 1
  /\ ret.success
  /\ Len(StoredTasks) = 2
  /\ Len(ret.data.tasks) = 1

\* C18: the result of an operation has exactly one path populated: a success has a
\* message and has neither error nor error_code; a failure has an error and an
\* error_code and has neither message nor data.
C18_EnvelopeExclusive ==
  ret # NotCalled =>
    IF ret.success
    THEN ret.message # NoWord /\ ret.error = NoWord /\ ret.error_code = NoWord
    ELSE /\ ret.error # NoWord
         /\ ret.error_code # NoWord
         /\ ret.message = NoWord
         /\ ret.data = NoData

\* A record of the store has a priority or a status that is no value of its enum.
CorruptRecord ==
  \E k \in 1..Len(StoredTasks) :
    \/ Priority_from_string(StoredTasks[k].priority).exc # "none"
    \/ Status_from_string(StoredTasks[k].status).exc # "none"

\* C19: on a store that holds a record whose priority or status is no value of its
\* enum, list_tasks returns a failure with the storage error code.
C19_CorruptRecordIsStorageError ==
  (ret # NotCalled /\ arg.op = "list" /\ CorruptRecord) =>
    ~ret.success /\ ret.error_code = STORAGE_ERROR

\* The UTC instant a due date names: its reading less its offset.
Instant(due_date) == due_date.t - due_date.off

\* The call asks for the overdue tasks and for nothing else.
OverdueQuery ==
  \/ arg.op = "overdue"
  \/ arg.op = "list" /\ arg.overdue_only /\ Alone(arg) = {arg}

\* C15: get_overdue_tasks, and list_tasks with overdue_only alone, return exactly the
\* stored tasks that are not completed, have a due date, and whose due date is, as a
\* UTC instant, strictly before the instant of the call.
C15_OverdueMembership ==
  (ret # NotCalled /\ OverdueQuery /\ ret.success) =>
    Range(ret.data.tasks) =
      {x \in Range(AllTasks) : /\ ~x.completed
                               /\ TruthyDue(x.due_date)
                               /\ Instant(x.due_date) < arg.t}

\* C16: get_upcoming_tasks(days) returns exactly the tasks that are not completed and
\* have a due date d with now <= d <= now + days.
C16_UpcomingWindow ==
  (ret # NotCalled /\ arg.op = "upcoming" /\ ret.success) =>
    Range(ret.data.tasks) =
      {x \in Range(AllTasks) : /\ ~x.completed
                               /\ TruthyDue(x.due_date)
                               /\ arg.t <= Instant(x.due_date)
                               /\ Instant(x.due_date) <= arg.t + arg.days * DayLen}

\* ---- validate_due_date

\* C21: a due date that validate_due_date returned is accepted by validate_due_date
\* and returned as it is.
C21_DueDateIdempotent ==
  (ret # NotCalled /\ ret.exc = "none") => validate_due_date(ret.v) = ret

\* A date was returned as a datetime, which is other than the text given, and a
\* datetime with an offset other than zero was returned.
C21_Witness ==
  /\ ret # NotCalled
  /\ ret.exc = "none"
  /\ \/ arg.kind = "date" /\ ret.v # arg
     \/ arg.kind = "offset" /\ arg.off # 0

\* The due dates validate_due_date returns.
ValidatedDues == {validate_due_date(d).v : d \in {e \in DueInputs : validate_due_date(e).exc = "none"}}

\* C22: what validate_due_date returns ends in Z, and the texts it returns are in the
\* order of the instants they name.
C22_DueDateCanonical ==
  (ret # NotCalled /\ ret.exc = "none") =>
    /\ ret.v.kind = "z"
    /\ \A d \in ValidatedDues :
         LexLess(due_key(ret.v), due_key(d)) <=> Instant(ret.v) < Instant(d)

\* ---- the web application

\* Every update the orchestrator can be asked for, of one field or of all.
AnyWebUpdates ==
  WebUpdates \cup {WebArgs(<<"b">>, <<TRUE>>, "Low", <<"w">>), WebArgs(<<"b">>, <<FALSE>>, "High", <<>>)}

\* A key that no row has.
AbsentKey == CHOOSE key \in 1..(MaxWrites + 1) : get_task_by_id(db, key) = <<>>

\* C23: update_task and delete_task of the TaskOrchestrator, called for a task by a
\* user who does not own it, return success False with the error 'Task not found', as
\* they do for an id that no task has, and leave every row of the table as it was.
C23_OwnershipCheck ==
  \A k \in 1..Len(db) : \A u \in Users \ {db[k].user_id} :
    /\ \A a \in AnyWebUpdates :
         LET out == TaskOrchestrator_update_task(db, db[k].id, u, a.title, a.is_completed,
                                                 a.priority, a.category)
         IN /\ ~out.success
            /\ out.error = "Task not found"
            /\ out.session = db
            /\ [out EXCEPT !.session = db] =
                 TaskOrchestrator_update_task(db, AbsentKey, u, a.title, a.is_completed,
                                              a.priority, a.category)
    /\ LET out == TaskOrchestrator_delete_task(db, db[k].id, u) IN
       /\ ~out.success
       /\ out.error = "Task not found"
       /\ out.session = db
       /\ out = TaskOrchestrator_delete_task(db, AbsentKey, u)

\* The table holds tasks of two users, one of them updated by its owner.
C23_Witness ==
  /\ Len(db) = 2
  /\ db[1].user_id # db[2].user_id
  /\ db[1].title = <<"b">>
  /\ TaskOrchestrator_update_task(db, db[1].id, db[1].user_id, None, <<TRUE>>, NoWord, None).success
  /\ ~TaskOrchestrator_update_task(db, db[1].id, db[2].user_id, None, <<TRUE>>, NoWord, None).success

\* ---- sorting

\* The sort keys list_tasks documents.
RecognizedSortKeys == {"id", "title", "priority", "created_at", "due_date"}

\* C24: with a sort_by that is none of id, title, priority, created_at and due_date,
\* list_tasks succeeds wherever it succeeds with sort_by id, and returns the tasks
\* that pass the filter in the order of the store, up to the limit.
C24_UnknownSortKeyNoOp ==
  (/\ ret # NotCalled
   /\ arg \in SortCalls
   /\ arg.sort_by \notin RecognizedSortKeys
   /\ Listed([arg EXCEPT !.sort_by = "id", !.sort_order = "asc"]).success) =>
    /\ ret.success
    /\ ret.data = Listed([arg EXCEPT !.sort_by = "id", !.sort_order = "asc"]).data

\* The days until a task is due, as get_overdue_tasks counts them at the instant t.
DaysLeft(task, t) == IF days_until_due(task, t).none THEN 0 ELSE days_until_due(task, t).days

\* C25: the tasks get_overdue_tasks returns are in the order of their priority rank,
\* high before medium before low, and those of one priority in the order of their
\* days until due, the most overdue first.
C25_OverdueOrdering ==
  (ret # NotCalled /\ arg.op = "overdue" /\ ret.success) =>
    \A i \in 1..Len(ret.data.tasks) : \A j \in (i + 1)..Len(ret.data.tasks) :
      LET a == ret.data.tasks[i]
          b == ret.data.tasks[j]
      IN \/ priority_rank(a.priority) < priority_rank(b.priority)
         \/ /\ priority_rank(a.priority) = priority_rank(b.priority)
            /\ DaysLeft(a, arg.t) <= DaysLeft(b, arg.t)

\* Two overdue tasks were returned against the order of the store: a high one after a
\* low one was stored, or the more overdue of two tasks of one priority.
C25_Witness ==
  /\ ret # NotCalled
  /\ arg.op = "overdue"
  /\ ret.success
  /\ Len(ret.data.tasks) = 2
  /\ ret.data.tasks[1].id > ret.data.tasks[2].id
  /\ \/ priority_rank(ret.data.tasks[1].priority) < priority_rank(ret.data.tasks[2].priority)
     \/ DaysLeft(ret.data.tasks[1], arg.t) < DaysLeft(ret.data.tasks[2], arg.t)

\* ---- storage.update_task

\* The updates storage.update_task is given: one key, two keys, the three keys of a
\* completion, and updated_at itself.
StoreUpdates ==
  {[title |-> <<"b">>],
   [priority |-> "low", category |-> <<"w">>],
   [status |-> "completed", completed |-> TRUE, completed_at |-> now],
   [updated_at |-> NoTime]}

\* The record after storage.update_task, as C26 states it: the keys of updates
\* overwritten, updated_at stamped with the instant of the write, the rest kept.
Overwritten(task, updates, t) ==
  /\ \A f \in DOMAIN task :
       /\ f = "updated_at" => task[f] = t
       /\ f # "updated_at" /\ f \in DOMAIN updates => task[f] = updates[f]

\* C26. Store update frame: storage.update_task on a present id returns True and
\* overwrites the keys of updates and stamps updated_at on the first record of that id,
\* and leaves the other fields of it, the other records, their number and their order
\* as they were; on an absent id it returns False and writes nothing.
C26_StoreUpdateFrame ==
  \A i \in TaskIds, u \in StoreUpdates, t \in {now, now + 1} :
    LET out == storage_update_task(fs, i, u, t, "none", TRUE)
        k == IndexOf(StoredTasks, i)
    IN
    IF k = 0 THEN out.exc = "none" /\ ~out.v /\ out.fs = fs
    ELSE LET after == out.fs.todos.data IN
         /\ out.exc = "none" /\ out.v
         /\ out.fs.todos.exists /\ out.fs.todos.complete
         /\ Len(after) = Len(StoredTasks)
         /\ \A j \in 1..Len(after) : j # k => after[j] = StoredTasks[j]
         /\ DOMAIN after[k] = DOMAIN StoredTasks[k]
         /\ Overwritten(after[k], u, t)
         /\ \A f \in DOMAIN after[k] :
              f # "updated_at" /\ f \notin DOMAIN u => after[k][f] = StoredTasks[k][f]

\* C26 witness: two tasks are stored and a third id is not; storage.update_task of the
\* second, at a later instant, changes its title and its stamp, and of the third
\* returns False.
C26_Witness ==
  /\ Len(StoredTasks) = 2
  /\ \E i \in TaskIds : IndexOf(StoredTasks, i) = 0
                         /\ ~storage_update_task(fs, i, [title |-> <<"b">>], now + 1, "none", TRUE).v
  /\ LET out == storage_update_task(fs, StoredTasks[2].id, [title |-> <<"b">>], now + 1,
                                    "none", TRUE)
     IN /\ out.v
        /\ out.fs.todos.data[2].title # StoredTasks[2].title
        /\ out.fs.todos.data[2].updated_at # StoredTasks[2].updated_at
        /\ out.fs.todos.data[1] = StoredTasks[1]

\* ---- complete_task

\* C27. Mark-complete timestamps: after a complete_task that succeeded in marking the
\* task complete, the stored task has updated_at equal to completed_at, also when the
\* clock advances between the marking of the Task and the write of the store.
C27_CompletionStamps ==
  \A i \in StoredIds, t2 \in {now, now + 1} :
    LET out == complete_task(fs, i, FALSE, FALSE, now, t2, "none", TRUE) IN
    out.res.success =>
      LET stored == find_task_by_id(out.fs, i).v[1] IN
      /\ stored.completed
      /\ stored.completed_at = now
      /\ stored.updated_at = stored.completed_at

\* C30. Completion timestamp invariant: after any sequence of add_task, update_task,
\* complete_task and delete_task, every stored task has a completed_at if and only if
\* it is completed.
C30_CompletedAtIffCompleted ==
  \A k \in 1..Len(StoredTasks) :
    (StoredTasks[k].completed_at # NoTime) <=> StoredTasks[k].completed

\* ---- delete_task

\* C28. Delete not-found at either phase: delete_task of an id that is not in the store
\* when it is called, with force False or True, returns a failure with the not-found
\* code and leaves the file system as it was; so does the forced call that follows a
\* call without force after which another actor has removed the task.
C28_DeleteNotFound ==
  /\ \A i \in TaskIds, force \in BOOLEAN :
       ~Exists(i) =>
         LET out == delete_task(fs, i, force, "none", TRUE) IN
         /\ ~out.res.success
         /\ out.res.error_code = NOT_FOUND
         /\ out.fs = fs
  /\ \A i \in StoredIds :
       LET asked == delete_task(fs, i, FALSE, "none", TRUE)
           other == delete_task(asked.fs, i, TRUE, "none", TRUE)
           out == delete_task(other.fs, i, TRUE, "none", TRUE)
       IN
       (asked.res.success /\ other.res.success) =>
         /\ ~out.res.success
         /\ out.res.error_code = NOT_FOUND
         /\ out.fs = other.fs

\* C28 witness: a task is stored next to one that was deleted before; delete_task without
\* force asks for the confirmation, another actor deletes the task, and the forced call
\* finds nothing.
C28_Witness ==
  /\ \E i \in TaskIds : ~Exists(i) /\ i < max_id(StoredTasks)
  /\ \E i \in StoredIds :
       LET asked == delete_task(fs, i, FALSE, "none", TRUE)
           other == delete_task(asked.fs, i, TRUE, "none", TRUE)
       IN /\ asked.res.data.confirmation_required
          /\ other.res.success
          /\ delete_task(other.fs, i, TRUE, "none", TRUE).res.error_code = NOT_FOUND

\* ---- due dates that cannot be parsed

\* todos.json with the due date of its k-th record replaced by a text that is no date,
\* and todos.json without its k-th record.
Spoiled(k) == [fs EXCEPT !.todos.data[k].due_date = [kind |-> "bad", t |-> 0, off |-> 0]]
Without(k) ==
  [fs EXCEPT !.todos.data = SubSeq(StoredTasks, 1, k - 1)
                              \o SubSeq(StoredTasks, k + 1, Len(StoredTasks))]

\* list_tasks(overdue_only=True) at instant t, in one order and format.
ListOverdue(store, sort_by, output_format, t) ==
  list_tasks(store, "all", NoWord, None, NoFlag, TRUE, sort_by, "asc", NoLimit,
             output_format, t)

\* C29. Unparseable due dates degrade gracefully: on a store that the queries can read,
\* when the due date of one stored task is a text that cannot be parsed,
\* get_upcoming_tasks, get_overdue_tasks and list_tasks with overdue_only succeed and
\* return what they return on the store without that task: the task is left out and
\* every other task that qualifies is returned.
C29_UnparseableDueExcluded ==
  (ret = NotCalled /\ get_overdue_tasks(fs, 1).res.success) =>
    \A k \in 1..Len(StoredTasks) :
      LET spoiled == Spoiled(k)
          without == Without(k)
      IN
      /\ \A t \in {1, 3, 5} :
           LET overdue == get_overdue_tasks(spoiled, t).res IN
           overdue.success /\ overdue = get_overdue_tasks(without, t).res
      /\ \A c \in {<<"id", "json", 3>>, <<"due_date", "simple", 3>>, <<"due_date", "json", 5>>} :
           LET listed == ListOverdue(spoiled, c[1], c[2], c[3]).res IN
           listed.success /\ listed = ListOverdue(without, c[1], c[2], c[3]).res
      /\ \A c \in {<<0, 1>>, <<1, 1>>, <<1, 2>>, <<1, 3>>} :
           LET upcoming == get_upcoming_tasks(spoiled, c[1], c[2]).res IN
           upcoming.success /\ upcoming = get_upcoming_tasks(without, c[1], c[2]).res

\* C29 witness: two tasks are stored, both overdue at instant 3 and both upcoming at
\* instant 1; with the due date of the first one spoiled, each of the three queries
\* returns the second one alone.
C29_Witness ==
  /\ ret = NotCalled
  /\ Len(StoredTasks) = 2
  /\ Len(get_overdue_tasks(fs, 3).res.data.tasks) = 2
  /\ Len(get_upcoming_tasks(fs, 1, 1).res.data.tasks) = 2
  /\ Ids(get_overdue_tasks(Spoiled(1), 3).res.data.tasks) = <<StoredTasks[2].id>>
  /\ Ids(ListOverdue(Spoiled(1), "id", "json", 3).res.data.tasks) = <<StoredTasks[2].id>>
  /\ Ids(get_upcoming_tasks(Spoiled(1), 1, 1).res.data.tasks) = <<StoredTasks[2].id>>

====
